---- MODULE Spec2Model ----
(***************************************************************************)
(* The IMAP EXPUNGE handler (onExpunge) of the SQLite storage server, run   *)
(* by several sessions against one account database, together with the     *)
(* per-account lock of the coordination store (Spec, PlainSpec, FairSpec);  *)
(* EXPUNGE and UNSUBSCRIBE entered on the front-end and delegated to the    *)
(* backend (DualSpec); the broadcast of the WebSocket server and its        *)
(* acknowledgment set (WssSpec); the caller side of the RPC bridge          *)
(* (BridgeSpec).  One action is one stretch of a handler between two        *)
(* awaits; each specification leaves the variables of the others alone.     *)
(***************************************************************************)
EXTENDS Integers, Sequences, FiniteSets, TLC

None == "none"

\* ------------------------------------------------------------------ bounds
\* soft-deleted messages of mailbox m1 carry the uids 1..MaxUid
MaxUid == 2
\* number of polling rounds a blocked acquireLock waits before it times out
MaxWait == 1

\* --------------------------------------------------------------- the world
Sessions == {"s1", "s2"}
\* every session of the model belongs to the same account: one database key
DbKey == "a1"
Keys == {DbKey}
MailboxIds == {"m1", "m2"}
MissingMailboxId == "mX"

Msg(id, mb, uid, undel, att) ==
  [id |-> id, mailbox |-> mb, uid |-> uid, undeleted |-> undel,
   attachmentMap |-> att]

\* the Messages table of the account database before any EXPUNGE
InitRows ==
  {Msg(10 + u, "m1", u, FALSE, IF u = 1 THEN {"att1", "att2"} ELSE {}) :
     u \in 1..MaxUid}
  \cup {Msg(10 + MaxUid + 1, "m1", MaxUid + 1, TRUE, {"att2"})}
  \cup {Msg(21, "m2", 1, FALSE, {})}

InitAttachments == {"att1", "att2"}

\* update.messages of a UID EXPUNGE: ascending uid lists
UidLists == {<<1>>, <<1, 2>>, <<1, 3>>}

\* the update descriptors tried: the plain EXPUNGE, and the silent UID EXPUNGE
\* of each uid list
Updates ==
  {[isUid |-> FALSE, messages |-> <<>>, silent |-> FALSE]}
  \cup {[isUid |-> TRUE, messages |-> l, silent |-> TRUE] : l \in UidLists}

\* session.selected.mailbox of each session
SessionSelected == [s \in Sessions |-> IF s = "s1" THEN "m1" ELSE "m2"]

\* the arguments of one onExpunge call: mailboxId and update; for a mailbox
\* id that does not exist only the plain update is tried
PlainUpdate == [isUid |-> FALSE, messages |-> <<>>, silent |-> FALSE]
Requests ==
  {r \in [mailboxId : {"m1", MissingMailboxId}, update : Updates] :
     r.mailboxId = MissingMailboxId => r.update = PlainUpdate}
NoRequest == [mailboxId |-> None, update |-> PlainUpdate]

\* ------------------------------------------------------------------ errors
NoError == [name |-> None, imapResponse |-> None]
IMAPError(code) == [name |-> "IMAPError", imapResponse |-> code]
PlainError(name) == [name |-> name, imapResponse |-> None]
MailboxNotFound == IMAPError("NONEXISTENT")
LockTimeoutError == PlainError("LockTimeout")
StorageError == PlainError("StorageError")
RefreshError == PlainError("RefreshError")

\* ------------------------------------------------- commands and mailboxes
\* the two roles an instance runs a handler in
FrontEnd == [name |-> "IMAP", wsp |-> TRUE]
Backend == [name |-> "SQLite", wsp |-> FALSE]

\* onExpunge delegates when the instance is the IMAP server
ExpungeDelegates(inst) == inst.name = "IMAP"
\* onUnsubscribe delegates when the instance has an RPC client
UnsubscribeDelegates(inst) == inst.wsp

\* an instance that runs the execute path of onExpunge and has the RPC
\* client that path uses for its 'stmt' and 'size' requests
BridgedBackend == [name |-> "SQLite", wsp |-> TRUE]
\* the instances a process may construct at startup
Instances == {FrontEnd, Backend, BridgedBackend}
NoInstance == [name |-> None, wsp |-> FALSE]

\* handler invocations followed per process
MaxCalls == 3

\* alias ids the cleanup job found database files of
MaxIds == 3
Ids == 1 .. MaxIds
\* os.cpus().length of the machine the job runs on
concurrency == 2

\* connections counted under one key of the coordination store
MaxCount == 2
\* the two keys of a session: `${prefix}:${host}` and `${prefix}:${alias}`
CounterKeys == {"host", "alias"}

\* the processes that run jobs/tti.js
Runners == {"r1", "r2"}
\* the tti_lock key is absent
NoKey == [by |-> "nobody"]

\* heartbeat ticks counted since a client's last pong
MaxMissed == 3

\* paths of the mailboxes of the account, and a path no mailbox has
Paths == {"INBOX", "Sent"}
MissingPath == "Archive"

NoArgs ==
  [verb |-> None, mailboxId |-> None, update |-> PlainUpdate, path |-> None]
ExpungeArgs(r) ==
  [verb |-> "EXPUNGE", mailboxId |-> r.mailboxId, update |-> r.update,
   path |-> None]
UnsubscribeArgs(p) ==
  [verb |-> "UNSUBSCRIBE", mailboxId |-> None, update |-> PlainUpdate,
   path |-> p]

\* ways a request fails in the bridge: no response in time, or the remote
\* side answers with an error that carries a protocol response code
RpcTimeoutError == PlainError("Timeout")
RemoteCodeError == IMAPError("AUTHENTICATIONFAILED")
RpcFailures == {RpcTimeoutError, RemoteCodeError}

VARIABLES
  pc,          \* position of each session's onExpunge invocation
  req,         \* its arguments
  mailbox,     \* the mailbox it resolved (its id) or None
  lock,        \* the handler's local `lock`
  err,         \* the handler's local `err` (thrown inside the locked block)
  messages,    \* the rows its select returned
  idx,         \* index of the loop over messages
  writeStream, \* the handler's local writeStream
  fnCalls,     \* the calls it made of the completion callback fn
  waited,      \* polling rounds its acquireLock has been blocked
  rows,        \* Messages table of the account database
  attachments, \* blobs of the attachment store
  journal,     \* Change Entries appended by addEntries
  locks,       \* coordination store: active lock tokens per key
  ttlExpired,  \* history: sessions whose token was removed by its TTL
  lookups,     \* history: Mailboxes.findOne calls resolved per session
  acquired,    \* history: successful acquireLock calls per session
  released,    \* history: releaseLock calls per session
  deleted,     \* history: ids of the rows a session's deleteOne removed
  processed,   \* history: uids a session passed to deleteOne, in order
  fired,       \* history: notifier.fire calls per session
  sizeReqs,    \* history: 'size' requests per session
  acqOrder     \* history: sessions in the order they acquired the lock

local == <<pc, req, mailbox, lock, err, messages, idx, writeStream, fnCalls,
           waited>>
shared == <<rows, attachments, journal, locks>>
history == <<ttlExpired, lookups, acquired, released, deleted, processed, fired,
             sizeReqs, acqOrder>>

\* the front-end (IMAP server) side of a delegated command, and UNSUBSCRIBE
VARIABLES
  fpc,          \* position of each session's handler on the front-end
  fargs,        \* the command it was invoked with
  ffn,          \* the calls the front-end handler made of its fn
  clientWrites, \* what the front-end wrote to session.writeStream
  upc,          \* position of each session's onUnsubscribe on the backend
  ufn,          \* the calls the backend onUnsubscribe made of its fn
  subscribed    \* Mailboxes table: the subscribed flag of each path

dual == <<fpc, fargs, ffn, clientWrites, upc, ufn, subscribed>>

\* the WebSocket server's broadcast and its acknowledgment set
VARIABLES
  now,           \* the clock, in seconds
  clients,       \* this.wss.clients: the connected clients
  broadcasts,    \* each wss.broadcast call: its state, start, end, receivers
  sent,          \* packed payloads sent to a client and not yet echoed
  uuidsReceived, \* this.uuidsReceived
  timers         \* pending setTimeout callbacks that delete a uuid

wss == <<now, clients, broadcasts, sent, uuidsReceived, timers>>

\* the caller side of the RPC bridge (wsp.request)
VARIABLES
  clock,    \* the caller's clock
  pending,  \* the Pending RPC Request entries
  nextReq,  \* number of the next request
  arrivals, \* responses that arrived so far, per correlation id
  connected, \* the duplex channel is open
  settled   \* history: what each request settled with, in order

bridge == <<clock, pending, nextReq, arrivals, connected, settled>>

\* the upgrade requests that reach the WebSocket server
VARIABLES
  sockets  \* per socket: its credentials and what the upgrade handler did

upgrade == <<sockets>>

\* a session that follows the journal of the account
VARIABLES
  lastSeen,  \* the highest modseq the subscriber has read
  observed,  \* the entries it has read, with their modseq, in reading order
  wakeups    \* how many live signals it has been woken by

subscriber == <<lastSeen, observed, wakeups>>

\* one server process and the paths its handlers took
VARIABLES
  instance,  \* the server instance the process constructed at startup
  taken      \* per handler invocation: session, verb and path, in order

process == <<instance, taken>>

\* the log of the best-effort calls of the backend EXPUNGE handler
VARIABLES
  sideFailures  \* per session: the best-effort calls that threw (logged)

logged == <<sideFailures>>

\* the scheduled jobs
VARIABLES
  cleanup,  \* jobs/cleanup-sqlite.js: the run, each id's mapper, its requests
  closing,  \* onClose: the counter keys and each session's two decrements
  tti,      \* jobs/tti.js: the tti_lock key and each process's checkTTI
  heart     \* the backend's heartbeat: wss.clients in order, isAlive, pings

jobs == <<cleanup, closing, tti, heart>>

\* everything outside the backend EXPUNGE handler and its stores
other == <<dual, wss, bridge, upgrade, subscriber, logged, process, jobs>>
expunge == <<local, shared, history>>
\* everything outside the delegated commands
outsideDual == <<expunge, wss, bridge, upgrade, subscriber,
  logged, process, jobs>>
\* everything outside the WebSocket server's broadcast
outsideWss == <<expunge, dual, bridge, upgrade, subscriber,
  logged, process, jobs>>
\* everything outside the RPC bridge
outsideBridge == <<expunge, dual, wss, upgrade, subscriber,
  logged, process, jobs>>
\* everything outside the upgrade handler, apart from wss.clients
outsideUpgrade ==
  <<expunge, dual, bridge, subscriber, logged, process, jobs, now, broadcasts,
    sent, uuidsReceived, timers>>
vars == <<expunge, other>>

\* ----------------------------------------------------------- pure helpers
\* wildduck tools.checkRangeQuery: one uid, a run of consecutive uids, or a
\* list of uids
RECURSIVE Consecutive(_)
Consecutive(l) ==
  IF Len(l) < 2 THEN TRUE
  ELSE l[2] = l[1] + 1 /\ Consecutive(Tail(l))

checkRangeQuery(uids) ==
  IF Len(uids) = 0 THEN [op |-> "false"]
  ELSE IF Len(uids) = 1 THEN [op |-> "eq", val |-> uids[1]]
  ELSE IF Consecutive(uids)
       THEN [op |-> "range", gte |-> uids[1], lte |-> uids[Len(uids)]]
       ELSE [op |-> "in", vals |-> {uids[k] : k \in 1..Len(uids)}]

UidMatches(q, uid) ==
  CASE q.op = "any" -> TRUE
    [] q.op = "false" -> FALSE
    [] q.op = "eq" -> uid = q.val
    [] q.op = "range" -> uid >= q.gte /\ uid <= q.lte
    [] q.op = "in" -> uid \in q.vals

\* a select condition without the soft-delete marker
ConditionAnyMarker(mb, update) ==
  [mailbox |-> mb, undeleted |-> TRUE,
   uid |-> IF update.isUid THEN checkRangeQuery(update.messages)
           ELSE [op |-> "any"]]

\* the select condition of on-expunge.js
Condition(mb, update) ==
  [mailbox |-> mb, undeleted |-> FALSE,
   uid |-> IF update.isUid THEN checkRangeQuery(update.messages)
           ELSE [op |-> "any"]]

Matching(table, cond) ==
  {r \in table : r.mailbox = cond.mailbox /\ r.undeleted = cond.undeleted
                 /\ UidMatches(cond.uid, r.uid)}

MinUidRow(S) == CHOOSE r \in S : \A q \in S : r.uid <= q.uid

RECURSIVE SortByUid(_)
SortByUid(S) ==
  IF S = {} THEN <<>>
  ELSE LET r == MinUidRow(S) IN <<r>> \o SortByUid(S \ {r})

RECURSIVE SortByUidDescending(_)
SortByUidDescending(S) ==
  IF S = {} THEN <<>>
  ELSE LET r == MinUidRow(S) IN SortByUidDescending(S \ {r}) \o <<r>>

\* the select without its sort: the rows come back in another order
SelectUnsorted(table, cond) == SortByUidDescending(Matching(table, cond))

\* select ... from Messages where condition order by uid
SelectMessages(table, cond) == SortByUid(Matching(table, cond))

\* Mailboxes.findOne({_id: mailboxId})
FindMailbox(id) == IF id \in MailboxIds THEN id ELSE None

\* deleteOne with a filter that names the mailbox only
DeleteOneHitsMailboxOnly(table, message, mb) ==
  {r \in table : r.mailbox = mb}

\* rows hit by Messages.deleteOne({_id, mailbox, uid})
DeleteOneHits(table, message, mb) ==
  {r \in table : r.id = message.id /\ r.mailbox = mb /\ r.uid = message.uid}

\* a write condition that looks at update.silent only
ShouldWriteUnlessSilent(update, selected, mb) == ~update.silent

\* the condition under which an EXPUNGE write is queued
ShouldWrite(update, selected, mb) ==
  ~update.silent \/ (selected # None /\ selected = mb)

\* refineAndLogError hands back an error object for the client; it keeps no
\* imapResponse apart from the one the error already carried
refineAndLogError(e) == [name |-> e.name, imapResponse |-> e.imapResponse]

\* one call of the completion callback: fn(err, value, writes)
FnCall(e, v, w) == [err |-> e, value |-> v, writes |-> w]

\* an outer catch that ignores imapResponse
CatchResponseGeneric(e) == FnCall(refineAndLogError(e), None, <<>>)

\* what the outer catch hands to fn
CatchResponse(e) ==
  IF e.imapResponse # None
  THEN FnCall(NoError, e.imapResponse, <<>>)
  ELSE FnCall(refineAndLogError(e), None, <<>>)

\* ------------------------------------------------------------ lock manager
Token(s) == [success |-> TRUE, key |-> DbKey, id |-> s]
NoLock == [success |-> FALSE, key |-> None, id |-> None]

LockIsFree(store, key) == store[key] = {}
LockGrant(store, tok) == [store EXCEPT ![tok.key] = @ \cup {tok}]
LockHolds(store, tok) == tok \in store[tok.key]
LockDrop(store, tok) == [store EXCEPT ![tok.key] = @ \ {tok}]

\* a deleteMany that removes every blob it is given, cited or not
DeleteManyUnscanned(blobs, ids, table) == blobs \ ids

\* attachment store deleteMany: a blob goes unless a remaining row cites it
DeleteManyResult(blobs, ids, table) ==
  blobs \ {a \in ids : \A r \in table : a \notin r.attachmentMap}

\* ------------------------------------------------------------------- Init
\* --------------------------------------------------------- broadcast world
\* the timeout of the broadcast's pWaitFor, and the time after which an
\* acknowledged uuid is deleted again, in seconds
BroadcastTimeout == 5
AckGrace == 1
\* the clock stops here
MaxTime == 7

Clients == {"c1", "c2"}
\* the value randomUUID gives to the broadcast of the model
Uuids == {"u1"}

NotStarted == [state |-> "idle", start |-> 0, end |-> 0, sentTo |-> {}]

\* nobody is connected, nothing was broadcast, the acknowledgment set is empty
WssInit ==
  /\ now = 0
  /\ clients = {}
  /\ broadcasts = [u \in Uuids |-> NotStarted]
  /\ sent = {}
  /\ uuidsReceived = {}
  /\ timers = {}

\* ------------------------------------------------------------ bridge world
\* requests the model sends, responses that may arrive per correlation id
\* (the second one is a duplicate), and the time at which the clock stops
MaxRequests == 2
MaxArrivals == 2
MaxClock == 3

RequestNumbers == 1..MaxRequests
\* timeoutMs of a request: already expired, or two time units
RequestTimeouts == {0, 2}

\* nothing was requested yet
BridgeInit ==
  /\ clock = 0
  /\ pending = {}
  /\ nextReq = 1
  /\ arrivals = [i \in RequestNumbers |-> 0]
  /\ connected = TRUE
  /\ settled = [n \in RequestNumbers |-> <<>>]

\* ----------------------------------------------------------- upgrade world
\* env.API_SECRETS
API_SECRETS == {"secret1", "secret2"}

\* what basic-auth reads from the request: nothing, or a name
NoCredentials == [defined |-> FALSE, name |-> ""]
Named(n) == [defined |-> TRUE, name |-> n]
\* the names tried: empty, the encrypted forms of two allowed secrets and of
\* a value that is not allowed, and bytes that do not decrypt
CredentialNames ==
  {"", "enc:secret1", "enc:secret2", "enc:intruder", "garbage"}
Credentials == {NoCredentials} \cup {Named(n) : n \in CredentialNames}

\* helpers/encrypt-decrypt decrypt: the plain value, or it throws
decrypt(name) ==
  CASE name = "enc:secret1" -> [threw |-> FALSE, value |-> "secret1"]
    [] name = "enc:secret2" -> [threw |-> FALSE, value |-> "secret2"]
    [] name = "enc:intruder" -> [threw |-> FALSE, value |-> "intruder"]
    [] OTHER -> [threw |-> TRUE, value |-> ""]

\* a socket no upgrade request has arrived on
Untouched ==
  [state |-> "idle", credentials |-> NoCredentials,
   wrote |-> [statusCode |-> 0, error |-> ""], upgraded |-> FALSE]

\* the sockets upgrade requests arrive on: those of the clients, and one more
Sockets == Clients \cup {"c3"}

UpgradeInit == sockets = [c \in Sockets |-> Untouched]

\* --------------------------------------------------------- subscriber world
\* live signals one subscriber is woken by (a signal may be repeated or lost)
MaxWakeups == 2

\* nothing read yet
SubscriberInit == lastSeen = 0 /\ observed = <<>> /\ wakeups = 0

\* the process has not started
ProcessInit == instance = NoInstance /\ taken = <<>>

\* the cleanup job has collected `ids` and is about to call pMap
CleanupInit ==
  cleanup = [job |-> "running",
             at |-> [i \in Ids |-> "queued"],
             requests |-> [i \in Ids |-> <<>>]]

\* no connection is counted and both sessions (same host, same alias) are open
ClosingInit ==
  closing = [counters |-> [k \in CounterKeys |-> 0],
             at |-> [s \in Sessions |-> [k \in CounterKeys |-> "open"]]]

\* no tti_lock is set and every process is about to call checkTTI
TtiInit ==
  tti = [lock |-> NoKey,
         at |-> [r \in Runners |-> "idle"],
         set |-> [r \in Runners |-> FALSE]]

\* the backend listens and no client is connected
HeartInit ==
  heart = [clients |-> <<>>,
           isAlive |-> [c \in Sockets |-> TRUE],
           pinged |-> {},
           missed |-> [c \in Sockets |-> 0],
           ticks |-> 0]

\* no command is running on the front-end; every mailbox is subscribed
DualInit ==
  /\ fpc = [s \in Sessions |-> "idle"]
  /\ fargs = [s \in Sessions |-> NoArgs]
  /\ ffn = [s \in Sessions |-> <<>>]
  /\ clientWrites = [s \in Sessions |-> <<>>]
  /\ upc = [s \in Sessions |-> "idle"]
  /\ ufn = [s \in Sessions |-> <<>>]
  /\ subscribed = [p \in Paths |-> TRUE]

Init ==
  /\ pc = [s \in Sessions |-> "idle"]
  /\ req = [s \in Sessions |-> NoRequest]
  /\ mailbox = [s \in Sessions |-> None]
  /\ lock = [s \in Sessions |-> NoLock]
  /\ err = [s \in Sessions |-> NoError]
  /\ messages = [s \in Sessions |-> <<>>]
  /\ idx = [s \in Sessions |-> 0]
  /\ writeStream = [s \in Sessions |-> <<>>]
  /\ fnCalls = [s \in Sessions |-> <<>>]
  /\ waited = [s \in Sessions |-> 0]
  /\ rows = InitRows
  /\ attachments = InitAttachments
  /\ journal = <<>>
  /\ locks = [k \in Keys |-> {}]
  /\ ttlExpired = {}
  /\ lookups = [s \in Sessions |-> 0]
  /\ acquired = [s \in Sessions |-> 0]
  /\ released = [s \in Sessions |-> 0]
  /\ deleted = [s \in Sessions |-> {}]
  /\ processed = [s \in Sessions |-> <<>>]
  /\ fired = [s \in Sessions |-> 0]
  /\ sizeReqs = [s \in Sessions |-> 0]
  /\ acqOrder = <<>>
  /\ DualInit
  /\ WssInit
  /\ BridgeInit
  /\ UpgradeInit
  /\ SubscriberInit
  /\ sideFailures = [s \in Sessions |-> {}]
  /\ ProcessInit
  /\ CleanupInit
  /\ ClosingInit
  /\ TtiInit
  /\ HeartInit

\* ---------------------------------------------------------------- actions
\* fn is called and the invocation ends
Finish(s, call) ==
  /\ fnCalls' = [fnCalls EXCEPT ![s] = Append(@, call)]
  /\ pc' = [pc EXCEPT ![s] = "done"]

\* onExpunge(mailboxId, update, session, fn) is invoked on a backend
\* (constructor name is not 'IMAP') and awaits refreshSession
CallWith(s, inputs) ==
  /\ pc[s] = "idle"
  /\ \E r \in inputs : req' = [req EXCEPT ![s] = r]
  /\ pc' = [pc EXCEPT ![s] = "refresh"]
  /\ UNCHANGED <<mailbox, lock, err, messages, idx, writeStream, fnCalls,
                 waited, shared, history>>
  /\ UNCHANGED other

Call(s) == CallWith(s, Requests)

\* refreshSession resolves, or throws into the outer catch (lock not set)
ExpRefresh(s) ==
  /\ pc[s] = "refresh"
  /\ \/ /\ pc' = [pc EXCEPT ![s] = "lookup"]
        /\ UNCHANGED fnCalls
     \/ Finish(s, CatchResponse(RefreshError))
  /\ UNCHANGED <<req, mailbox, lock, err, messages, idx, writeStream, waited,
                 shared, history>>
  /\ UNCHANGED other

\* Mailboxes.findOne resolves; a missing mailbox throws NONEXISTENT into the
\* outer catch, otherwise acquireLock is called
ExpLookup(s) ==
  /\ pc[s] = "lookup"
  /\ LET mb == FindMailbox(req[s].mailboxId) IN
       IF mb = None
       THEN /\ Finish(s, CatchResponse(MailboxNotFound))
            /\ UNCHANGED mailbox
       ELSE /\ mailbox' = [mailbox EXCEPT ![s] = mb]
            /\ pc' = [pc EXCEPT ![s] = "acquire"]
            /\ UNCHANGED fnCalls
  /\ lookups' = [lookups EXCEPT ![s] = @ + 1]
  /\ UNCHANGED <<req, lock, err, messages, idx, writeStream, waited, shared,
                 ttlExpired, acquired, released, deleted, processed, fired,
                 sizeReqs, acqOrder>>
  /\ UNCHANGED other

\* acquireLock not awaited: the handler goes on whether or not the lock is
\* free
ExpAcquireLockNoAwait(s) ==
  /\ pc[s] = "acquire"
  /\ locks' = LockGrant(locks, Token(s))
  /\ lock' = [lock EXCEPT ![s] = Token(s)]
  /\ acquired' = [acquired EXCEPT ![s] = @ + 1]
  /\ acqOrder' = Append(acqOrder, s)
  /\ pc' = [pc EXCEPT ![s] = "select"]
  /\ UNCHANGED <<req, mailbox, err, messages, idx, writeStream, fnCalls,
                 waited, rows, attachments, journal, ttlExpired, lookups,
                 released, deleted, processed, fired, sizeReqs>>
  /\ UNCHANGED other

\* acquireLock resolves with a token: the store had no active token
ExpAcquireLock(s) ==
  /\ pc[s] = "acquire"
  /\ LockIsFree(locks, DbKey)
  /\ locks' = LockGrant(locks, Token(s))
  /\ lock' = [lock EXCEPT ![s] = Token(s)]
  /\ acquired' = [acquired EXCEPT ![s] = @ + 1]
  /\ acqOrder' = Append(acqOrder, s)
  /\ pc' = [pc EXCEPT ![s] = "select"]
  /\ UNCHANGED <<req, mailbox, err, messages, idx, writeStream, fnCalls,
                 waited, rows, attachments, journal, ttlExpired, lookups,
                 released, deleted, processed, fired, sizeReqs>>
  /\ UNCHANGED other

\* acquireLock finds the lock held and waits another round
LockWait(s) ==
  /\ pc[s] = "acquire"
  /\ ~LockIsFree(locks, DbKey)
  /\ waited[s] < MaxWait
  /\ waited' = [waited EXCEPT ![s] = @ + 1]
  /\ UNCHANGED <<pc, req, mailbox, lock, err, messages, idx, writeStream,
                 fnCalls, shared, history>>
  /\ UNCHANGED other

\* the bounded wait is over and the lock is still held: acquireLock throws
\* into the outer catch (lock not set)
LockTimeout(s) ==
  /\ pc[s] = "acquire"
  /\ ~LockIsFree(locks, DbKey)
  /\ waited[s] = MaxWait
  /\ Finish(s, CatchResponse(LockTimeoutError))
  /\ UNCHANGED <<req, mailbox, lock, err, messages, idx, writeStream, waited,
                 shared, history>>
  /\ UNCHANGED other

\* the select resolves (sorted by uid) or throws; a throw inside the locked
\* block is kept in err
ExpSelect(s) ==
  /\ pc[s] = "select"
  /\ \/ LET found == SelectMessages(rows, Condition(mailbox[s], req[s].update))
        IN /\ messages' = [messages EXCEPT ![s] = found]
           /\ idx' = [idx EXCEPT ![s] = 1]
           /\ pc' = [pc EXCEPT ![s] =
                       IF Len(found) = 0 THEN "release" ELSE "delete"]
           /\ UNCHANGED err
     \/ /\ err' = [err EXCEPT ![s] = StorageError]
        /\ pc' = [pc EXCEPT ![s] = "release"]
        /\ UNCHANGED <<messages, idx>>
  /\ UNCHANGED <<req, mailbox, lock, writeStream, fnCalls, waited, shared,
                 history>>
  /\ UNCHANGED other

\* where the loop goes after the message at idx
AfterMessage(s) == IF idx[s] < Len(messages[s]) THEN "delete" ELSE "release"

\* writeStream after the EXPUNGE write of a deleted message
Written(s, message) ==
  IF ShouldWrite(req[s].update, SessionSelected[s], mailbox[s])
  THEN Append(writeStream[s], <<"EXPUNGE", message.uid>>)
  ELSE writeStream[s]

\* a loop body that releases the lock as soon as the row is deleted
ExpDeleteOneThenRelease(s) ==
  /\ pc[s] = "delete"
  /\ LET message == messages[s][idx[s]]
         hits == DeleteOneHits(rows, message, mailbox[s])
     IN \/ /\ hits # {}
           /\ rows' = rows \ {CHOOSE r \in hits : TRUE}
           /\ deleted' = [deleted EXCEPT ![s] = @ \cup {message.id}]
           /\ processed' = [processed EXCEPT ![s] = Append(@, message.uid)]
           /\ IF message.attachmentMap # {}
              THEN /\ pc' = [pc EXCEPT ![s] = "gc"]
                   /\ UNCHANGED writeStream
              ELSE /\ pc' = [pc EXCEPT ![s] = "add"]
                   /\ writeStream' =
                        [writeStream EXCEPT ![s] = Written(s, message)]
           /\ UNCHANGED <<err, idx>>
        \/ /\ hits = {}
           /\ processed' = [processed EXCEPT ![s] = Append(@, message.uid)]
           /\ pc' = [pc EXCEPT ![s] = AfterMessage(s)]
           /\ idx' = [idx EXCEPT ![s] = @ + 1]
           /\ UNCHANGED <<rows, deleted, err, writeStream>>
        \/ /\ err' = [err EXCEPT ![s] = StorageError]
           /\ processed' = [processed EXCEPT ![s] = Append(@, message.uid)]
           /\ pc' = [pc EXCEPT ![s] = "release"]
           /\ UNCHANGED <<rows, deleted, idx, writeStream>>
  /\ locks' = IF LockHolds(locks, lock[s]) THEN LockDrop(locks, lock[s])
              ELSE locks
  /\ released' = [released EXCEPT ![s] = @ + 1]
  /\ UNCHANGED <<req, mailbox, lock, messages, fnCalls, waited, attachments,
                 journal, ttlExpired, lookups, acquired, fired, sizeReqs,
                 acqOrder>>
  /\ UNCHANGED other

\* Messages.deleteOne for the message at idx resolves or throws
ExpDeleteOne(s) ==
  /\ pc[s] = "delete"
  /\ LET message == messages[s][idx[s]]
         hits == DeleteOneHits(rows, message, mailbox[s])
     IN \/ /\ hits # {}
           /\ rows' = rows \ {CHOOSE r \in hits : TRUE}
           /\ deleted' = [deleted EXCEPT ![s] = @ \cup {message.id}]
           /\ processed' = [processed EXCEPT ![s] = Append(@, message.uid)]
           /\ IF message.attachmentMap # {}
              THEN /\ pc' = [pc EXCEPT ![s] = "gc"]
                   /\ UNCHANGED writeStream
              ELSE /\ pc' = [pc EXCEPT ![s] = "add"]
                   /\ writeStream' =
                        [writeStream EXCEPT ![s] = Written(s, message)]
           /\ UNCHANGED <<err, idx>>
        \/ /\ hits = {}
           /\ processed' = [processed EXCEPT ![s] = Append(@, message.uid)]
           /\ pc' = [pc EXCEPT ![s] = AfterMessage(s)]
           /\ idx' = [idx EXCEPT ![s] = @ + 1]
           /\ UNCHANGED <<rows, deleted, err, writeStream>>
        \/ /\ err' = [err EXCEPT ![s] = StorageError]
           /\ processed' = [processed EXCEPT ![s] = Append(@, message.uid)]
           /\ pc' = [pc EXCEPT ![s] = "release"]
           /\ UNCHANGED <<rows, deleted, idx, writeStream>>
  /\ UNCHANGED <<req, mailbox, lock, messages, fnCalls, waited, attachments,
                 journal, locks, ttlExpired, lookups, acquired, released,
                 fired,
                 sizeReqs, acqOrder>>
  /\ UNCHANGED other

\* attachmentStorage.deleteMany resolves (ok) or throws (logged); the EXPUNGE
\* write follows
DeleteManyStep(s, ok) ==
  /\ pc[s] = "gc"
  /\ LET message == messages[s][idx[s]] IN
       /\ attachments' =
            IF ok
            THEN DeleteManyResult(attachments, message.attachmentMap, rows)
            ELSE attachments
       /\ writeStream' = [writeStream EXCEPT ![s] = Written(s, message)]
  /\ pc' = [pc EXCEPT ![s] = "add"]
  /\ UNCHANGED <<req, mailbox, lock, err, messages, idx, fnCalls, waited,
                 rows, journal, locks, history>>

ExpDeleteMany(s) ==
  /\ \E ok \in BOOLEAN : DeleteManyStep(s, ok)
  /\ UNCHANGED other

ChangeEntry(s, message) ==
  [ignore |-> s, command |-> "EXPUNGE", uid |-> message.uid,
   mailbox |-> mailbox[s], message |-> message.id]

\* a loop body that fires the notifier whether or not addEntries resolved
ExpAddEntriesFireAlways(s) ==
  /\ pc[s] = "add"
  /\ \/ journal' = Append(journal, ChangeEntry(s, messages[s][idx[s]]))
     \/ UNCHANGED journal
  /\ fired' = [fired EXCEPT ![s] = @ + 1]
  /\ pc' = [pc EXCEPT ![s] = AfterMessage(s)]
  /\ idx' = [idx EXCEPT ![s] = @ + 1]
  /\ UNCHANGED <<req, mailbox, lock, err, messages, writeStream, fnCalls,
                 waited, rows, attachments, locks, ttlExpired, lookups,
                 acquired, released, deleted, processed, sizeReqs, acqOrder>>
  /\ UNCHANGED other

\* notifier.addEntries resolves and notifier.fire follows, or addEntries
\* throws (logged); the loop goes on
ExpAddEntries(s) ==
  /\ pc[s] = "add"
  /\ \/ /\ journal' = Append(journal, ChangeEntry(s, messages[s][idx[s]]))
        /\ fired' = [fired EXCEPT ![s] = @ + 1]
     \/ UNCHANGED <<journal, fired>>
  /\ pc' = [pc EXCEPT ![s] = AfterMessage(s)]
  /\ idx' = [idx EXCEPT ![s] = @ + 1]
  /\ UNCHANGED <<req, mailbox, lock, err, messages, writeStream, fnCalls,
                 waited, rows, attachments, locks, ttlExpired, lookups,
                 acquired, released, deleted, processed, sizeReqs, acqOrder>>
  /\ UNCHANGED other

\* store after a releaseLock of tok: the token is dropped if it is still the
\* active one; the call may also fail and leave it (the failure is logged)
ReleaseOutcomes(store, tok) ==
  IF LockHolds(store, tok) THEN {LockDrop(store, tok), store} ELSE {store}

\* the handler without the releaseLock that follows the locked block
ExpReleaseLockSkipped(s) ==
  /\ pc[s] = "release"
  /\ pc' = [pc EXCEPT ![s] = "size"]
  /\ UNCHANGED <<req, mailbox, lock, err, messages, idx, writeStream,
                 fnCalls, waited, shared, history>>
  /\ UNCHANGED other

\* store after a releaseLock of tok that resolved (ok) or threw
Released(store, tok, ok) ==
  IF ok /\ LockHolds(store, tok) THEN LockDrop(store, tok) ELSE store

\* releaseLock after the locked block resolves (ok) or throws (logged), then
\* the 'size' request is sent
ReleaseStep(s, ok) ==
  /\ pc[s] = "release"
  /\ locks' = Released(locks, lock[s], ok)
  /\ released' = [released EXCEPT ![s] = @ + 1]
  /\ pc' = [pc EXCEPT ![s] = "size"]
  /\ UNCHANGED <<req, mailbox, lock, err, messages, idx, writeStream,
                 fnCalls, waited, rows, attachments, journal, ttlExpired,
                 lookups, acquired, deleted, processed, fired, sizeReqs,
                 acqOrder>>

\* the outcomes of releaseLock that differ in the store
ReleaseTries(s) == IF LockHolds(locks, lock[s]) THEN BOOLEAN ELSE {FALSE}

ExpReleaseLock(s) ==
  /\ pc[s] = "release"
  /\ \E ok \in ReleaseTries(s) : ReleaseStep(s, ok)
  /\ UNCHANGED other

\* the 'size' request has resolved or failed (logged); then either fn(null,
\* true, writeStream), or err is thrown into the outer catch, which calls
\* releaseLock because lock.success is set
\* a handler that calls fn(null, true, writeStream) before `if (err) throw err`
SizeStepAnswersFirst(s) ==
  /\ pc[s] = "size"
  /\ sizeReqs' = [sizeReqs EXCEPT ![s] = @ + 1]
  /\ fnCalls' = [fnCalls EXCEPT ![s] =
       LET answered == Append(@, FnCall(NoError, TRUE, writeStream[s])) IN
         IF err[s] # NoError /\ ~lock[s].success
         THEN Append(answered, CatchResponse(err[s])) ELSE answered]
  /\ pc' = [pc EXCEPT ![s] = IF err[s] # NoError /\ lock[s].success
                             THEN "catch" ELSE "done"]
  /\ UNCHANGED <<req, mailbox, lock, err, messages, idx, writeStream, waited,
                 shared, ttlExpired, lookups, acquired, released, deleted,
                 processed, fired, acqOrder>>

SizeStep(s) ==
  /\ pc[s] = "size"
  /\ sizeReqs' = [sizeReqs EXCEPT ![s] = @ + 1]
  /\ IF err[s] # NoError
     THEN /\ pc' = [pc EXCEPT ![s] = IF lock[s].success THEN "catch"
                                       ELSE "done"]
          /\ fnCalls' = [fnCalls EXCEPT ![s] =
                           IF lock[s].success THEN @
                           ELSE Append(@, CatchResponse(err[s]))]
     ELSE Finish(s, FnCall(NoError, TRUE, writeStream[s]))
  /\ UNCHANGED <<req, mailbox, lock, err, messages, idx, writeStream, waited,
                 shared, ttlExpired, lookups, acquired, released, deleted,
                 processed, fired, acqOrder>>

ExpSize(s) == SizeStep(s) /\ UNCHANGED other

\* releaseLock of the outer catch resolves or throws (logged); fn gets the
\* error
ExpCatchRelease(s) ==
  /\ pc[s] = "catch"
  /\ \E st \in ReleaseOutcomes(locks, lock[s]) : locks' = st
  /\ released' = [released EXCEPT ![s] = @ + 1]
  /\ Finish(s, CatchResponse(err[s]))
  /\ UNCHANGED <<req, mailbox, lock, err, messages, idx, writeStream, waited,
                 rows, attachments, journal, ttlExpired, lookups, acquired,
                 deleted, processed, fired, sizeReqs, acqOrder>>
  /\ UNCHANGED other

InLocked(s) == pc[s] \in {"select", "delete", "gc", "add", "release"}

\* the process running the invocation dies inside the locked block
Crash(s) ==
  /\ InLocked(s)
  /\ pc' = [pc EXCEPT ![s] = "crashed"]
  /\ UNCHANGED <<req, mailbox, lock, err, messages, idx, writeStream,
                 fnCalls, waited, shared, history>>
  /\ UNCHANGED other

\* a token stored without a TTL: it never runs out
TTLExpireNever(k) ==
  /\ locks[k] # {}
  /\ FALSE
  /\ UNCHANGED vars

\* the TTL of the active token of key k runs out
TTLExpire(k) ==
  /\ locks[k] # {}
  /\ ttlExpired' = ttlExpired \cup {t.id : t \in locks[k]}
  /\ locks' = [locks EXCEPT ![k] = {}]
  /\ UNCHANGED <<local, rows, attachments, journal, lookups, acquired,
                 released, deleted, processed, fired, sizeReqs, acqOrder>>
  /\ UNCHANGED other

Body(s) ==
  \/ ExpRefresh(s)
  \/ ExpLookup(s)
  \/ ExpAcquireLock(s)
  \/ LockWait(s)
  \/ LockTimeout(s)
  \/ ExpSelect(s)
  \/ ExpDeleteOne(s)
  \/ ExpDeleteMany(s)
  \/ ExpAddEntries(s)
  \/ ExpReleaseLock(s)
  \/ ExpSize(s)
  \/ ExpCatchRelease(s)

Step(s) == Call(s) \/ Body(s)

Next ==
  \/ \E s \in Sessions : Step(s)
  \/ \E s \in Sessions : Crash(s)
  \/ \E k \in Keys : TTLExpire(k)

Spec == Init /\ [][Next]_vars

\* The same system for the liveness of the lock, which does not depend on the
\* update: every session issues a plain EXPUNGE.  While a continuation of
\* some invocation is ready, the event loop eventually runs one, and the
\* coordination store eventually expires a token whose TTL has run out; a
\* crash is never forced.
PlainRequests == {r \in Requests : r.update = PlainUpdate}

PlainCall(s) == CallWith(s, PlainRequests)

PlainStep(s) == PlainCall(s) \/ Body(s)

PlainNext ==
  \/ \E s \in Sessions : PlainStep(s)
  \/ \E s \in Sessions : Crash(s)
  \/ \E k \in Keys : TTLExpire(k)

\* the same system without the scheduling assumptions
PlainSpec == Init /\ [][PlainNext]_vars

FairSpec ==
  /\ Init /\ [][PlainNext]_vars
  /\ WF_vars(\E s \in Sessions : PlainStep(s))
  /\ \A k \in Keys : WF_vars(TTLExpire(k))

\* ------------------------------------ delegated commands and UNSUBSCRIBE
\* The same commands entered on the front-end: the handler sends the request
\* over the bridge, a backend invocation of the same handler runs it, and the
\* front-end handler finishes with what the request settled with.

\* the commands tried on the front-end
Commands ==
  {ExpungeArgs(r) : r \in PlainRequests}
  \cup {UnsubscribeArgs(p) : p \in {"INBOX", MissingPath}}

\* what the request settles with when the backend handler called fn: an
\* error rejects it with that error, anything else resolves it with the
\* values passed to fn
RpcSettle(call) ==
  IF call.err # NoError
  THEN [rejected |-> TRUE, err |-> call.err, data |-> <<>>]
  ELSE [rejected |-> FALSE, err |-> NoError,
        data |-> <<call.value, call.writes>>]

\* session.formatResponse of one queued write
formatResponse(write) == [tag |-> "*", command |-> write[1], uid |-> write[2]]

\* a replay that writes the instructions last to first
FormatAllBackwards(writes) ==
  [k \in 1..Len(writes) |-> formatResponse(writes[Len(writes) + 1 - k])]

\* the replay loop of the delegate branch: one formatted write per instruction
FormatAll(writes) == [k \in 1..Len(writes) |-> formatResponse(writes[k])]

\* a catch that swallows the failure of the request and reports success
ExpungeDelegateCatchSwallow(e) == FnCall(NoError, TRUE, <<>>)

\* catch of the delegate branch of onExpunge
ExpungeDelegateCatch(e) == FnCall(e, None, <<>>)

\* catch of the delegate branch of onUnsubscribe
UnsubscribeDelegateCatch(e) ==
  IF e.imapResponse # None
  THEN FnCall(NoError, e.imapResponse, <<>>)
  ELSE FnCall(e, None, <<>>)

\* catch of the backend branch of onUnsubscribe
UnsubscribeCatch(e) == FnCall(refineAndLogError(e), None, <<>>)

\* an update that flips the flag instead of clearing it
FindOneAndToggle(table, path) ==
  IF path \in DOMAIN table
  THEN [found |-> TRUE, table |-> [table EXCEPT ![path] = ~@]]
  ELSE [found |-> FALSE, table |-> table]

\* Mailboxes.findOneAndUpdate({path}, {$set: {subscribed: false}})
FindOneAndUpdate(table, path) ==
  IF path \in DOMAIN table
  THEN [found |-> TRUE, table |-> [table EXCEPT ![path] = FALSE]]
  ELSE [found |-> FALSE, table |-> table]

\* the handler is invoked on the front-end and sends its request
FrontCall(s) ==
  /\ fpc[s] = "idle"
  /\ \E c \in Commands :
       /\ \/ c.verb = "EXPUNGE" /\ ExpungeDelegates(FrontEnd)
          \/ c.verb = "UNSUBSCRIBE" /\ UnsubscribeDelegates(FrontEnd)
       /\ fargs' = [fargs EXCEPT ![s] = c]
  /\ fpc' = [fpc EXCEPT ![s] = "request"]
  /\ UNCHANGED <<ffn, clientWrites, upc, ufn, subscribed, outsideDual>>

\* the backend receives the 'expunge' request and invokes onExpunge
RpcDeliverExpunge(s) ==
  /\ fpc[s] = "request"
  /\ fargs[s].verb = "EXPUNGE"
  /\ ~ExpungeDelegates(Backend)
  /\ CallWith(s, {[mailboxId |-> fargs[s].mailboxId,
                   update |-> fargs[s].update]})

\* the backend receives the 'unsubscribe' request and invokes onUnsubscribe,
\* which awaits refreshSession
RpcDeliverUnsubscribe(s) ==
  /\ fpc[s] = "request"
  /\ fargs[s].verb = "UNSUBSCRIBE"
  /\ ~UnsubscribeDelegates(Backend)
  /\ upc[s] = "idle"
  /\ upc' = [upc EXCEPT ![s] = "refresh"]
  /\ UNCHANGED <<fpc, fargs, ffn, clientWrites, ufn, subscribed, outsideDual>>

\* refreshSession resolves or throws into the catch
UnsubRefresh(s) ==
  /\ upc[s] = "refresh"
  /\ \/ /\ upc' = [upc EXCEPT ![s] = "update"]
        /\ UNCHANGED ufn
     \/ /\ ufn' = [ufn EXCEPT ![s] = Append(@, UnsubscribeCatch(RefreshError))]
        /\ upc' = [upc EXCEPT ![s] = "done"]
  /\ UNCHANGED <<fpc, fargs, ffn, clientWrites, subscribed, outsideDual>>

\* findOneAndUpdate resolves: fn(null, true), or NONEXISTENT is thrown into
\* the catch; or it throws itself
UnsubUpdate(s) ==
  /\ upc[s] = "update"
  /\ \/ LET res == FindOneAndUpdate(subscribed, fargs[s].path) IN
          /\ subscribed' = res.table
          /\ ufn' = [ufn EXCEPT ![s] =
                       Append(@, IF res.found
                                 THEN FnCall(NoError, TRUE, <<>>)
                                 ELSE UnsubscribeCatch(MailboxNotFound))]
     \/ /\ ufn' = [ufn EXCEPT ![s] = Append(@, UnsubscribeCatch(StorageError))]
        /\ UNCHANGED subscribed
  /\ upc' = [upc EXCEPT ![s] = "done"]
  /\ UNCHANGED <<fpc, fargs, ffn, clientWrites, outsideDual>>

\* the 'expunge' request settles with the backend's answer: the writes are
\* replayed to the client and fn(null, bool) is called, or the catch runs
FrontExpungeSettle(s) ==
  /\ fpc[s] = "request"
  /\ fargs[s].verb = "EXPUNGE"
  /\ pc[s] = "done"
  /\ LET res == RpcSettle(fnCalls[s][1]) IN
       IF res.rejected
       THEN /\ ffn' = [ffn EXCEPT ![s] =
                        Append(@, ExpungeDelegateCatch(res.err))]
            /\ UNCHANGED clientWrites
       ELSE /\ clientWrites' =
                 [clientWrites EXCEPT ![s] = @ \o FormatAll(res.data[2])]
            /\ ffn' = [ffn EXCEPT ![s] =
                         Append(@, FnCall(NoError, res.data[1], <<>>))]
  /\ fpc' = [fpc EXCEPT ![s] = "done"]
  /\ UNCHANGED <<fargs, upc, ufn, subscribed, outsideDual>>

\* the 'unsubscribe' request settles with the backend's answer:
\* fn(null, ...data), or the catch runs
FrontUnsubscribeSettle(s) ==
  /\ fpc[s] = "request"
  /\ fargs[s].verb = "UNSUBSCRIBE"
  /\ upc[s] = "done"
  /\ LET res == RpcSettle(ufn[s][1]) IN
       ffn' = [ffn EXCEPT ![s] =
                 Append(@, IF res.rejected
                           THEN UnsubscribeDelegateCatch(res.err)
                           ELSE FnCall(NoError, res.data[1], <<>>))]
  /\ fpc' = [fpc EXCEPT ![s] = "done"]
  /\ UNCHANGED <<fargs, clientWrites, upc, ufn, subscribed, outsideDual>>

\* the request fails in the bridge and the handler's catch runs
RpcFail(s) ==
  /\ fpc[s] = "request"
  /\ \E e \in RpcFailures :
       ffn' = [ffn EXCEPT ![s] =
                 Append(@, IF fargs[s].verb = "EXPUNGE"
                           THEN ExpungeDelegateCatch(e)
                           ELSE UnsubscribeDelegateCatch(e))]
  /\ fpc' = [fpc EXCEPT ![s] = "failed"]
  /\ UNCHANGED <<fargs, clientWrites, upc, ufn, subscribed, outsideDual>>

DualNext ==
  \/ \E s \in Sessions : FrontCall(s)
  \/ \E s \in Sessions : RpcDeliverExpunge(s)
  \/ \E s \in Sessions : RpcDeliverUnsubscribe(s)
  \/ \E s \in Sessions : Body(s)
  \/ \E s \in Sessions : UnsubRefresh(s)
  \/ \E s \in Sessions : UnsubUpdate(s)
  \/ \E s \in Sessions : FrontExpungeSettle(s)
  \/ \E s \in Sessions : FrontUnsubscribeSettle(s)
  \/ \E s \in Sessions : RpcFail(s)

DualSpec == Init /\ [][DualNext]_vars

\* ------------------------------------------- broadcast of the WebSocket server
\* wss.broadcast sends a payload tagged with a fresh uuid to every connected
\* client and waits until the uuid shows up in uuidsReceived; a client
\* acknowledges by echoing the 36-character uuid.  Time is counted in seconds;
\* a callback that is due runs before the clock moves on.

\* the clients the loop of wss.broadcast sends to: it stops once the uuid is
\* in the acknowledgment set
Receivers(u) == IF u \in uuidsReceived THEN {} ELSE clients

\* a pWaitFor whose timeout has passed from the start
TimedOutAtOnce(b) == TRUE

\* the timeout of the pWaitFor of broadcast b has passed
TimedOut(b) == now >= b.start + BroadcastTimeout

\* a client connects: the 'connection' handler runs
Connect(c) ==
  /\ c \notin clients
  /\ clients' = clients \cup {c}
  /\ UNCHANGED <<now, broadcasts, sent, uuidsReceived, timers, outsideWss>>

\* a client's connection closes
Disconnect(c) ==
  /\ c \in clients
  /\ clients' = clients \ {c}
  /\ UNCHANGED <<now, broadcasts, sent, uuidsReceived, timers, outsideWss>>

\* wss.broadcast(session, payload) is called: uuid u is drawn, the payload is
\* sent to the clients and pWaitFor starts
Broadcast(u) ==
  /\ broadcasts[u].state = "idle"
  /\ now + BroadcastTimeout <= MaxTime
  /\ broadcasts' = [broadcasts EXCEPT ![u] =
                      [state |-> "waiting", start |-> now, end |-> 0,
                       sentTo |-> Receivers(u)]]
  /\ sent' = sent \cup {<<c, u>> : c \in Receivers(u)}
  /\ UNCHANGED <<now, clients, uuidsReceived, timers, outsideWss>>

\* a message handler that adds the uuid and sets no timer
OnMessageUuidNoTimer(c, u) ==
  /\ <<c, u>> \in sent
  /\ c \in clients
  /\ now + AckGrace <= MaxTime
  /\ sent' = sent \ {<<c, u>>}
  /\ uuidsReceived' = uuidsReceived \cup {u}
  /\ UNCHANGED <<now, clients, broadcasts, timers, outsideWss>>

\* the 'message' handler gets 36 bytes from client c: the uuid is added to
\* the acknowledgment set and a timer is set that deletes it again
OnMessageUuid(c, u) ==
  /\ <<c, u>> \in sent
  /\ c \in clients
  /\ now + AckGrace <= MaxTime
  /\ sent' = sent \ {<<c, u>>}
  /\ uuidsReceived' = uuidsReceived \cup {u}
  /\ timers' = timers \cup {[uuid |-> u, due |-> now + AckGrace]}
  /\ UNCHANGED <<now, clients, broadcasts, outsideWss>>

\* a broadcast that resolves and leaves the uuid in the set
BroadcastResolveKeep(u) ==
  /\ broadcasts[u].state = "waiting"
  /\ u \in uuidsReceived
  /\ broadcasts' = [broadcasts EXCEPT ![u].state = "ok", ![u].end = now]
  /\ UNCHANGED <<now, clients, sent, uuidsReceived, timers, outsideWss>>

\* pWaitFor finds the uuid in the set: the uuid is deleted and the broadcast
\* resolves
BroadcastResolve(u) ==
  /\ broadcasts[u].state = "waiting"
  /\ u \in uuidsReceived
  /\ uuidsReceived' = uuidsReceived \ {u}
  /\ broadcasts' = [broadcasts EXCEPT ![u].state = "ok", ![u].end = now]
  /\ UNCHANGED <<now, clients, sent, timers, outsideWss>>

\* pWaitFor times out: the broadcast rejects with the timeout error
BroadcastReject(u) ==
  /\ broadcasts[u].state = "waiting"
  /\ TimedOut(broadcasts[u])
  /\ broadcasts' = [broadcasts EXCEPT ![u].state = "timeout", ![u].end = now]
  /\ UNCHANGED <<now, clients, sent, uuidsReceived, timers, outsideWss>>

\* the timer set by the 'message' handler fires
TimerFire(t) ==
  /\ t \in timers
  /\ t.due <= now
  /\ uuidsReceived' = uuidsReceived \ {t.uuid}
  /\ timers' = timers \ {t}
  /\ UNCHANGED <<now, clients, broadcasts, sent, outsideWss>>

\* a second passes; no callback is due
Tick ==
  /\ now < MaxTime
  /\ \A u \in Uuids :
       broadcasts[u].state = "waiting" =>
         u \notin uuidsReceived /\ ~TimedOut(broadcasts[u])
  /\ \A t \in timers : t.due > now
  /\ now' = now + 1
  /\ UNCHANGED <<clients, broadcasts, sent, uuidsReceived, timers, outsideWss>>

Timers == [uuid : Uuids, due : 0..MaxTime]

WssNext ==
  \/ \E c \in Clients : Connect(c)
  \/ \E c \in Clients : Disconnect(c)
  \/ \E u \in Uuids : Broadcast(u)
  \/ \E c \in Clients, u \in Uuids : OnMessageUuid(c, u)
  \/ \E u \in Uuids : BroadcastResolve(u)
  \/ \E u \in Uuids : BroadcastReject(u)
  \/ \E t \in Timers : TimerFire(t)
  \/ Tick

\* the event loop runs every callback that is due, and time passes
WssSpec ==
  /\ Init /\ [][WssNext]_vars
  /\ WF_vars(Tick)
  /\ \A u \in Uuids : WF_vars(BroadcastResolve(u))
  /\ \A u \in Uuids : WF_vars(BroadcastReject(u))
  /\ \A t \in Timers : WF_vars(TimerFire(t))

\* ------------------------------------------------ caller side of the bridge
\* this.wsp.request(payload with a timeout): the bridge gives the request a
\* correlation id, keeps a pending entry and settles the request with the
\* response tagged with that id or with Timeout, whichever comes first.  A
\* response needs time to come back; a timeout that is due fires before the
\* clock moves on.

\* the correlation id of the n-th request: unique
CorrelationId(n) == n

PendingIds == {p.id : p \in pending}

Entry(n, t) ==
  [req |-> n, id |-> CorrelationId(n), submitted |-> clock, timeout |-> t]

\* request(...) is called: the entry is registered and the request is sent
Request(t) ==
  /\ connected
  /\ nextReq <= MaxRequests
  /\ clock + t <= MaxClock
  /\ pending' = pending \cup {Entry(nextReq, t)}
  /\ nextReq' = nextReq + 1
  /\ UNCHANGED <<clock, arrivals, settled, connected, outsideBridge>>

\* the entries a response tagged i settles
EntriesWithId(i) == {p \in pending : p.id = i}

\* a bridge that hands a response to the request even when its entry is gone
ResponseArrivesUndiscarded(i, kind) ==
  /\ connected
  /\ i \in {CorrelationId(n) : n \in 1..(nextReq - 1)}
  /\ arrivals[i] < MaxArrivals
  /\ \A p \in EntriesWithId(i) : clock > p.submitted
  /\ arrivals' = [arrivals EXCEPT ![i] = @ + 1]
  /\ pending' = pending \ EntriesWithId(i)
  /\ settled' = [n \in RequestNumbers |->
                   IF CorrelationId(n) = i THEN Append(settled[n], kind)
                   ELSE settled[n]]
  /\ UNCHANGED <<clock, nextReq, connected, outsideBridge>>

\* a response tagged with correlation id i arrives: the pending entry with
\* that id is removed and its request settles with the result or with the
\* backend's error; with no such entry the response is dropped
ResponseArrives(i, kind) ==
  /\ connected
  /\ i \in {CorrelationId(n) : n \in 1..(nextReq - 1)}
  /\ arrivals[i] < MaxArrivals
  /\ \A p \in EntriesWithId(i) : clock > p.submitted
  /\ arrivals' = [arrivals EXCEPT ![i] = @ + 1]
  /\ pending' = pending \ EntriesWithId(i)
  /\ settled' = [n \in RequestNumbers |->
                   IF \E p \in EntriesWithId(i) : p.req = n
                   THEN Append(settled[n], kind)
                   ELSE settled[n]]
  /\ UNCHANGED <<clock, nextReq, connected, outsideBridge>>

\* a request whose timeout of 0 never fires
RequestTimeoutSkipsZero(p) ==
  /\ p \in pending
  /\ p.timeout > 0
  /\ clock >= p.submitted + p.timeout
  /\ pending' = pending \ {p}
  /\ settled' = [settled EXCEPT ![p.req] = Append(@, "Timeout")]
  /\ UNCHANGED <<clock, nextReq, arrivals, connected, outsideBridge>>

\* the timeout of a pending entry elapses: the entry is discarded and the
\* request fails with Timeout
RequestTimeout(p) ==
  /\ p \in pending
  /\ clock >= p.submitted + p.timeout
  /\ pending' = pending \ {p}
  /\ settled' = [settled EXCEPT ![p.req] = Append(@, "Timeout")]
  /\ UNCHANGED <<clock, nextReq, arrivals, connected, outsideBridge>>

\* time passes; no timeout is due
ClockTick ==
  /\ clock < MaxClock
  /\ \A p \in pending : clock < p.submitted + p.timeout
  /\ clock' = clock + 1
  /\ UNCHANGED <<pending, nextReq, arrivals, settled, connected, outsideBridge>>

\* a bridge that ignores the disconnect: the entries wait for their timeouts
ChannelDisconnectKeepsPending ==
  /\ connected
  /\ \A p \in pending : clock < p.submitted + p.timeout
  /\ connected' = FALSE
  /\ UNCHANGED <<clock, pending, nextReq, arrivals, settled, outsideBridge>>

\* the duplex channel disconnects (wsp.close(), or the backend goes away):
\* every pending entry is removed and its request fails with ConnectionLost;
\* timeouts that are due have fired before
ChannelDisconnect ==
  /\ connected
  /\ \A p \in pending : clock < p.submitted + p.timeout
  /\ connected' = FALSE
  /\ pending' = {}
  /\ settled' = [n \in RequestNumbers |->
                   IF \E p \in pending : p.req = n
                   THEN Append(settled[n], "ConnectionLost")
                   ELSE settled[n]]
  /\ UNCHANGED <<clock, nextReq, arrivals, outsideBridge>>

\* the channel is opened again
ChannelReconnect ==
  /\ ~connected
  /\ connected' = TRUE
  /\ UNCHANGED <<clock, pending, nextReq, arrivals, settled, outsideBridge>>

Entries ==
  [req : RequestNumbers, id : RequestNumbers, submitted : 0..MaxClock,
   timeout : RequestTimeouts]

BridgeNext ==
  \/ \E t \in RequestTimeouts : Request(t)
  \/ \E i \in RequestNumbers, kind \in {"result", "RemoteError"} :
       ResponseArrives(i, kind)
  \/ \E p \in Entries : RequestTimeout(p)
  \/ ChannelDisconnect
  \/ ChannelReconnect
  \/ ClockTick

\* timers fire when they are due and time passes
BridgeSpec ==
  /\ Init /\ [][BridgeNext]_vars
  /\ WF_vars(ClockTick)
  /\ WF_vars(\E p \in Entries : RequestTimeout(p))

\* ------------------------------------------- upgrade requests and authenticate
\* no error: authenticate called fn()
AuthOk == [failed |-> FALSE, hasOutput |-> FALSE, statusCode |-> 0,
           error |-> ""]
\* Boom.unauthorized(...)
BoomUnauthorized ==
  [failed |-> TRUE, hasOutput |-> TRUE, statusCode |-> 401,
   error |-> "Unauthorized"]
\* an exception caught by authenticate: it has no output
ThrownError == [failed |-> TRUE, hasOutput |-> FALSE, statusCode |-> 0,
                error |-> ""]

\* an authenticate that does not look the decrypted name up in API_SECRETS
authenticateAnyName(credentials) ==
  IF ~credentials.defined \/ credentials.name = ""
  THEN BoomUnauthorized
  ELSE IF decrypt(credentials.name).threw THEN ThrownError ELSE AuthOk

\* authenticate(request, socket, head, fn): the error handed to fn
authenticate(credentials) ==
  IF ~credentials.defined \/ credentials.name = ""
  THEN BoomUnauthorized
  ELSE LET plain == decrypt(credentials.name) IN
         IF plain.threw THEN ThrownError
         ELSE IF plain.value \notin API_SECRETS THEN BoomUnauthorized
         ELSE AuthOk

\* the status line the upgrade handler writes for an error
StatusLine(e) ==
  [statusCode |-> IF e.hasOutput THEN e.statusCode ELSE 401,
   error |-> IF e.hasOutput THEN e.error ELSE "Unauthorized"]

\* server.on('upgrade'): authenticate runs; on an error the status line is
\* written and the socket destroyed, otherwise wss.handleUpgrade upgrades the
\* socket and 'connection' is emitted
Upgrade(c, credentials) ==
  /\ sockets[c].state = "idle"
  /\ LET e == authenticate(credentials) IN
       IF e.failed
       THEN /\ sockets' = [sockets EXCEPT ![c] =
                             [state |-> "destroyed",
                              credentials |-> credentials,
                              wrote |-> StatusLine(e), upgraded |-> FALSE]]
            /\ UNCHANGED clients
       ELSE /\ sockets' = [sockets EXCEPT ![c] =
                             [state |-> "open", credentials |-> credentials,
                              wrote |-> Untouched.wrote, upgraded |-> TRUE]]
            /\ clients' = clients \cup {c}
  /\ UNCHANGED outsideUpgrade

\* an upgraded connection closes
SocketClose(c) ==
  /\ sockets[c].state = "open"
  /\ sockets' = [sockets EXCEPT ![c].state = "closed"]
  /\ clients' = clients \ {c}
  /\ UNCHANGED outsideUpgrade

\* the peer opens a new socket in place of one that is over
SocketReplace(c) ==
  /\ sockets[c].state \in {"destroyed", "closed"}
  /\ sockets' = [sockets EXCEPT ![c] = Untouched]
  /\ UNCHANGED <<clients, outsideUpgrade>>

UpgradeNext ==
  \/ \E c \in Sockets, credentials \in Credentials : Upgrade(c, credentials)
  \/ \E c \in Sockets : SocketClose(c)
  \/ \E c \in Sockets : SocketReplace(c)

UpgradeSpec == Init /\ [][UpgradeNext]_vars

\* ---------------------------------------------- subscribers of the journal
\* addEntries gives the entries of an account increasing modification
\* sequences: the i-th appended entry has modseq i
Modseq(i) == i

\* a read that also returns the entry at the last-seen modseq
EntriesFromLastSeen(n) ==
  LET from == IF n = 0 THEN 1 ELSE n IN
    [k \in 1..(Len(journal) - from + 1) |->
       [modseq |-> Modseq(from + k - 1), entry |-> journal[from + k - 1]]]

\* the journal entries with modseq greater than n, oldest first
EntriesAfter(n) ==
  [k \in 1..(Len(journal) - n) |->
     [modseq |-> Modseq(n + k), entry |-> journal[n + k]]]

\* the subscriber re-reads the journal from its last-seen modseq
ReadJournal ==
  LET news == EntriesAfter(lastSeen) IN
    /\ observed' = observed \o news
    /\ lastSeen' = IF news = <<>> THEN lastSeen ELSE news[Len(news)].modseq

\* a live signal of some fire reaches the subscriber, for the first time or
\* again, and it re-reads the journal
SignalWake ==
  /\ \E s \in Sessions : fired[s] > 0
  /\ wakeups < MaxWakeups
  /\ wakeups' = wakeups + 1
  /\ ReadJournal
  /\ UNCHANGED <<expunge, dual, wss, bridge, upgrade, logged, process, jobs>>

\* the subscriber resumes without having been woken (the signal was lost)
Resume ==
  /\ ReadJournal
  /\ UNCHANGED <<wakeups, expunge, dual, wss, bridge, upgrade, logged,
                 process, jobs>>

JournalNext ==
  \/ \E s \in Sessions : PlainStep(s)
  \/ SignalWake
  \/ Resume

JournalSpec == Init /\ [][JournalNext]_vars

\* ----------------------------------------------- best-effort calls, logged
\* the backend handler with the outcome of its two best-effort calls written
\* down: what this.logger.fatal is given in their catch blocks
Logs(s, ok, what) ==
  sideFailures' =
    IF ok THEN sideFailures ELSE [sideFailures EXCEPT ![s] = @ \cup {what}]

NotLogged == <<dual, wss, bridge, upgrade, subscriber, process, jobs>>

LoggedDeleteMany(s) ==
  /\ \E ok \in BOOLEAN : DeleteManyStep(s, ok) /\ Logs(s, ok, "deleteMany")
  /\ UNCHANGED NotLogged

\* a handler whose failed 'size' request reaches fn
LoggedSizeEscalates(s) ==
  \E ok \in BOOLEAN :
    /\ Logs(s, ok, "size")
    /\ UNCHANGED NotLogged
    /\ IF ok THEN SizeStep(s)
       ELSE /\ pc[s] = "size"
            /\ sizeReqs' = [sizeReqs EXCEPT ![s] = @ + 1]
            /\ Finish(s, CatchResponse(RpcTimeoutError))
            /\ UNCHANGED <<req, mailbox, lock, err, messages, idx,
                           writeStream, waited, shared, ttlExpired, lookups,
                           acquired, released, deleted, processed, fired,
                           acqOrder>>

\* a handler that sends the 'size' request without the releaseLock before it
LoggedReleaseLockSkipped(s) ==
  /\ pc[s] = "release"
  /\ pc' = [pc EXCEPT ![s] = "size"]
  /\ UNCHANGED <<req, mailbox, lock, err, messages, idx, writeStream,
                 fnCalls, waited, shared, history>>
  /\ UNCHANGED other

LoggedReleaseLock(s) ==
  /\ \E ok \in BOOLEAN : ReleaseStep(s, ok) /\ Logs(s, ok, "releaseLock")
  /\ UNCHANGED NotLogged

LoggedSize(s) ==
  /\ \E ok \in BOOLEAN : SizeStep(s) /\ Logs(s, ok, "size")
  /\ UNCHANGED NotLogged

LoggedBody(s) ==
  \/ ExpRefresh(s)
  \/ ExpLookup(s)
  \/ ExpAcquireLock(s)
  \/ LockWait(s)
  \/ LockTimeout(s)
  \/ ExpSelect(s)
  \/ ExpDeleteOne(s)
  \/ LoggedDeleteMany(s)
  \/ ExpAddEntries(s)
  \/ LoggedReleaseLock(s)
  \/ LoggedSize(s)
  \/ ExpCatchRelease(s)

LoggedNext == \E s \in Sessions : PlainCall(s) \/ LoggedBody(s)

LoggedSpec == Init /\ [][LoggedNext]_vars

\* ------------------------------------------------- the role of a process
\* the path a handler takes on an instance
PathOf(verb, inst) ==
  IF verb = "EXPUNGE"
  THEN (IF ExpungeDelegates(inst) THEN "delegate" ELSE "execute")
  ELSE (IF UnsubscribeDelegates(inst) THEN "delegate" ELSE "execute")

\* the process starts and constructs its server instance
Start(inst) ==
  /\ instance = NoInstance
  /\ instance' = inst
  /\ UNCHANGED <<taken, expunge, dual, wss, bridge, upgrade, subscriber,
                 logged, jobs>>

\* a command handler is invoked on the instance and tests the role
Handle(s, verb) ==
  /\ instance # NoInstance
  /\ Len(taken) < MaxCalls
  /\ taken' = Append(taken, [session |-> s, verb |-> verb,
                             path |-> PathOf(verb, instance)])
  /\ UNCHANGED <<instance, expunge, dual, wss, bridge, upgrade, subscriber,
                 logged, jobs>>

RoleNext ==
  \/ \E inst \in Instances : Start(inst)
  \/ \E s \in Sessions, verb \in {"EXPUNGE", "UNSUBSCRIBE"} : Handle(s, verb)

RoleSpec == Init /\ [][RoleNext]_vars

\* ------------------------------------------------- jobs/cleanup-sqlite.js
\* how a call of wsp.request settles for its caller
RequestOutcomes == {"ok", "Timeout", "RemoteError"}

\* the mappers pMap has started and that have not settled
Active == {i \in Ids : cleanup.at[i] \in {"lookup", "auth", "vacuum", "size",
                                          "quota"}}
Queued == {i \in Ids : cleanup.at[i] = "queued"}
\* the process is alive and pMap has started every mapper it can start (it
\* starts them in one synchronous loop, and the next one as soon as one
\* resolves): the pending promises make progress
Alive ==
  /\ cleanup.job \in {"running", "rejected", "reported"}
  /\ \/ cleanup.job # "running"
     \/ Queued = {}
     \/ Cardinality(Active) >= concurrency

Moved(i, to) == [cleanup EXCEPT !.at[i] = to]
Requested(i, action, outcome, to) ==
  [cleanup EXCEPT !.at[i] = to,
                  !.requests[i] = Append(@, [action |-> action,
                                             outcome |-> outcome])]

\* pMap takes the next id of the iterator while fewer than `concurrency`
\* mappers are pending and no mapper has rejected; the mapper returns at once
\* for an id that is not a hex string
MapperStart(i) ==
  /\ cleanup.job = "running"
  /\ i \in Queued /\ \A j \in Queued : i <= j
  /\ Cardinality(Active) < concurrency
  /\ \E hex \in BOOLEAN :
       cleanup' = Moved(i, IF hex THEN "lookup" ELSE "returned")
  /\ UNCHANGED <<closing, tti, heart, expunge, dual, wss, bridge, upgrade,
                 subscriber, logged, process>>

\* `let alias = await Aliases.findOne({ id })`, before the mapper's try: the
\* alias is found, is gone, or the query rejects and with it the mapper, and
\* pMap (stopOnError) rejects at the first mapper that does
MapperLookup(i) ==
  /\ Alive /\ cleanup.at[i] = "lookup"
  /\ \E found \in {"alias", "none", "rejects"} :
       cleanup' =
         CASE found = "alias" -> Moved(i, "auth")
           [] found = "none" -> Moved(i, "returned")
           [] found = "rejects" ->
                [Moved(i, "rejected") EXCEPT
                   !.job = IF @ = "running" THEN "rejected" ELSE @]
  /\ UNCHANGED <<closing, tti, heart, expunge, dual, wss, bridge, upgrade,
                 subscriber, logged, process>>

\* the inner try: publish sqlite_auth_request and await the response (3s);
\* a timeout or a response without password goes to the inner catch, which
\* only logs
MapperAuth(i) ==
  /\ Alive /\ cleanup.at[i] = "auth"
  /\ \E ok \in BOOLEAN : cleanup' = Moved(i, IF ok THEN "vacuum" ELSE "size")
  /\ UNCHANGED <<closing, tti, heart, expunge, dual, wss, bridge, upgrade,
                 subscriber, logged, process>>

\* a mapper that sends 'vacuum' again when the request timed out
MapperVacuumAgain(i) ==
  /\ Alive /\ cleanup.at[i] = "vacuum"
  /\ \E o \in RequestOutcomes :
       cleanup' = Requested(i, "vacuum", o,
                            IF o = "Timeout" /\ Len(cleanup.requests[i]) < 3
                            THEN "vacuum" ELSE "size")
  /\ UNCHANGED <<closing, tti, heart, expunge, dual, wss, bridge, upgrade,
                 subscriber, logged, process>>

\* `await wsp.request({ action: 'vacuum', ... }, 0)` in the inner try: however
\* it settles, the mapper goes on after the inner catch
MapperVacuum(i) ==
  /\ Alive /\ cleanup.at[i] = "vacuum"
  /\ \E o \in RequestOutcomes : cleanup' = Requested(i, "vacuum", o, "size")
  /\ UNCHANGED <<closing, tti, heart, expunge, dual, wss, bridge, upgrade,
                 subscriber, logged, process>>

\* `await wsp.request({ action: 'size', ... }, 0)` in the outer try: a
\* failure goes to the mapper's catch, which logs it
MapperSize(i) ==
  /\ Alive /\ cleanup.at[i] = "size"
  /\ \E o \in RequestOutcomes :
       cleanup' = Requested(i, "size", o,
                            IF o = "ok" THEN "quota" ELSE "caught")
  /\ UNCHANGED <<closing, tti, heart, expunge, dual, wss, bridge, upgrade,
                 subscriber, logged, process>>

\* the rest of the outer try (second findOne, quota, threshold e-mail, save):
\* it returns, or throws into the mapper's catch
MapperQuota(i) ==
  /\ Alive /\ cleanup.at[i] = "quota"
  /\ \E ok \in BOOLEAN :
       cleanup' = Moved(i, IF ok THEN "returned" ELSE "caught")
  /\ UNCHANGED <<closing, tti, heart, expunge, dual, wss, bridge, upgrade,
                 subscriber, logged, process>>

\* pMap resolves when the iterator is exhausted and every mapper resolved
JobResolved ==
  /\ cleanup.job = "running"
  /\ \A i \in Ids : cleanup.at[i] \in {"returned", "caught"}
  /\ cleanup' = [cleanup EXCEPT !.job = "reported"]
  /\ UNCHANGED <<closing, tti, heart, expunge, dual, wss, bridge, upgrade,
                 subscriber, logged, process>>

\* the job's catch: pMap rejected; the error is logged and mailed
JobCatch ==
  /\ cleanup.job = "rejected"
  /\ cleanup' = [cleanup EXCEPT !.job = "reported"]
  /\ UNCHANGED <<closing, tti, heart, expunge, dual, wss, bridge, upgrade,
                 subscriber, logged, process>>

\* `parentPort.postMessage('done')` or `process.exit(0)`: the run is over
JobExit ==
  /\ cleanup.job = "reported"
  /\ cleanup' = [cleanup EXCEPT !.job = "exited"]
  /\ UNCHANGED <<closing, tti, heart, expunge, dual, wss, bridge, upgrade,
                 subscriber, logged, process>>

CleanupNext ==
  \/ \E i \in Ids : MapperStart(i)
  \/ \E i \in Ids : MapperLookup(i)
  \/ \E i \in Ids : MapperAuth(i)
  \/ \E i \in Ids : MapperVacuum(i)
  \/ \E i \in Ids : MapperSize(i)
  \/ \E i \in Ids : MapperQuota(i)
  \/ JobResolved
  \/ JobCatch
  \/ JobExit

CleanupSpec == Init /\ [][CleanupNext]_vars

\* ------------------------------------------------------ onClose counters
\* a connection is counted under the key (helpers/on-connect.js keeps the
\* same keys)
Counted(k) ==
  /\ closing.counters[k] < MaxCount
  /\ closing' = [closing EXCEPT !.counters[k] = @ + 1]
  /\ UNCHANGED <<cleanup, tti, heart, expunge, dual, wss, bridge, upgrade,
                 subscriber, logged, process>>

\* onClose(session): the two async functions of Promise.all start; one
\* returns at once when the session has no host or address, the other when
\* the session is not authenticated
OnClose(s, hasHost, hasUser) ==
  /\ \A k \in CounterKeys : closing.at[s][k] = "open"
  /\ closing' = [closing EXCEPT
       !.at[s] = [k \in CounterKeys |->
                    IF (k = "host" /\ hasHost) \/ (k = "alias" /\ hasUser)
                    THEN "incrby" ELSE "done"]]
  /\ UNCHANGED <<cleanup, tti, heart, expunge, dual, wss, bridge, upgrade,
                 subscriber, logged, process>>

\* `const count = await this.client.incrby(key, 0)`: the command reads the
\* counter, or throws (logged); `if (count > 0)` decides on the decrement
CloseRead(s, k) ==
  /\ closing.at[s][k] = "incrby"
  /\ \E ok \in BOOLEAN :
       closing' = [closing EXCEPT
         !.at[s][k] = IF ok /\ closing.counters[k] > 0 THEN "decr" ELSE "done"]
  /\ UNCHANGED <<cleanup, tti, heart, expunge, dual, wss, bridge, upgrade,
                 subscriber, logged, process>>

\* `await this.client.decr(key)`: the store decrements, or the command throws
CloseDecr(s, k) ==
  /\ closing.at[s][k] = "decr"
  /\ \E ok \in BOOLEAN :
       closing' = [closing EXCEPT
         !.at[s][k] = "done",
         !.counters[k] = IF ok THEN @ - 1 ELSE @]
  /\ UNCHANGED <<cleanup, tti, heart, expunge, dual, wss, bridge, upgrade,
                 subscriber, logged, process>>

ClosingNext ==
  \/ \E k \in CounterKeys : Counted(k)
  \/ \E s \in Sessions, hasHost, hasUser \in BOOLEAN :
       OnClose(s, hasHost, hasUser)
  \/ \E s \in Sessions, k \in CounterKeys : CloseRead(s, k)
  \/ \E s \in Sessions, k \in CounterKeys : CloseDecr(s, k)

ClosingSpec == Init /\ [][ClosingNext]_vars

\* ------------------------------------------------------------ jobs/tti.js
TtiFrame ==
  UNCHANGED <<cleanup, closing, heart, expunge, dual, wss, bridge, upgrade,
              subscriber, logged, process>>

\* checkTTI is called (at startup, or by the timer of the previous run) and
\* reads the cached 'tti': a recent good measurement returns and sets the
\* timer, a throw (client.get, JSON.parse) goes to the catch, otherwise the
\* run goes on to the lock
TtiCheck(r) ==
  /\ tti.at[r] = "idle"
  /\ \E cached \in {"recent", "stale", "throws"} :
       tti' = [tti EXCEPT
         !.set[r] = FALSE,
         !.at[r] = CASE cached = "recent" -> "idle"
                     [] cached = "stale" -> "get"
                     [] cached = "throws" -> "del"]
  /\ TtiFrame

\* `const lock = await client.get('tti_lock')`: an existing lock returns and
\* sets the timer, a throw goes to the catch
TtiGetLock(r) ==
  /\ tti.at[r] = "get"
  /\ \E ok \in BOOLEAN :
       tti' = [tti EXCEPT
         !.at[r] = IF ~ok THEN "del"
                   ELSE IF tti.lock # NoKey THEN "idle" ELSE "set"]
  /\ TtiFrame

\* `await client.set('tti_lock', true, 'PX', ms('5m'))`: a plain set, which
\* writes the key whether or not it exists; a throw goes to the catch
TtiSetLock(r) ==
  /\ tti.at[r] = "set"
  /\ \E ok \in BOOLEAN :
       tti' = IF ok
              THEN [tti EXCEPT !.lock = [by |-> r], !.set[r] = TRUE,
                               !.at[r] = "measure"]
              ELSE [tti EXCEPT !.at[r] = "del"]
  /\ TtiFrame

\* the measurement section: it ends, or throws into the catch; both go on to
\* the release
TtiMeasure(r) ==
  /\ tti.at[r] = "measure"
  /\ tti' = [tti EXCEPT !.at[r] = "del"]
  /\ TtiFrame

\* `await client.del('tti_lock')` after the try/catch, then the timer for the
\* next run; a throw of del is logged
TtiRelease(r) ==
  /\ tti.at[r] = "del"
  /\ \E ok \in BOOLEAN :
       tti' = [tti EXCEPT !.lock = IF ok THEN NoKey ELSE @,
                          !.at[r] = "idle"]
  /\ TtiFrame

\* the key's 5 minutes run out
TtiExpire ==
  /\ tti.lock # NoKey
  /\ tti' = [tti EXCEPT !.lock = NoKey]
  /\ TtiFrame

TtiNext ==
  \/ \E r \in Runners : TtiCheck(r)
  \/ \E r \in Runners : TtiGetLock(r)
  \/ \E r \in Runners : TtiSetLock(r)
  \/ \E r \in Runners : TtiMeasure(r)
  \/ \E r \in Runners : TtiRelease(r)
  \/ TtiExpire

TtiSpec == Init /\ [][TtiNext]_vars

\* ------------------------------------------------- the backend's heartbeat
HeartFrame ==
  UNCHANGED <<cleanup, closing, tti, expunge, dual, wss, bridge, upgrade,
              subscriber, logged, process>>

Connected == {heart.clients[n] : n \in 1 .. Len(heart.clients)}
Without(seq, c) == SelectSeq(seq, LAMBDA x : x # c)

\* wss.on('connection'): `ws.isAlive = true`; the set keeps insertion order
HeartConnect(c) ==
  /\ c \notin Connected
  /\ heart' = [heart EXCEPT !.clients = Append(@, c),
                            !.isAlive[c] = TRUE,
                            !.missed[c] = 0]
  /\ HeartFrame

\* ws.on('pong'): the client answers a ping, `this.isAlive = true`
HeartPong(c) ==
  /\ c \in Connected /\ c \in heart.pinged
  /\ heart' = [heart EXCEPT !.isAlive[c] = TRUE,
                            !.pinged = @ \ {c},
                            !.missed[c] = 0]
  /\ HeartFrame

\* the client's socket closes
HeartClose(c) ==
  /\ c \in Connected
  /\ heart' = [heart EXCEPT !.clients = Without(@, c),
                            !.pinged = @ \ {c}]
  /\ HeartFrame

\* the body of the interval callback over the clients in iteration order:
\* `if (ws.isAlive === false) return ws.terminate()` leaves the callback at
\* the first client that is not alive; a client before it is marked and pinged
RECURSIVE Beat(_, _)
Beat(seq, h) ==
  IF seq = <<>> THEN h
  ELSE LET ws == Head(seq) IN
       IF h.isAlive[ws] = FALSE
       THEN [h EXCEPT !.clients = Without(@, ws), !.pinged = @ \ {ws}]
       ELSE Beat(Tail(seq), [h EXCEPT !.isAlive[ws] = FALSE,
                                      !.pinged = @ \cup {ws}])

\* the setInterval callback of listen, every 35 s
HeartTick ==
  /\ Connected # {}
  /\ heart' = [Beat(heart.clients, heart) EXCEPT
       !.ticks = 1 - @,
       !.missed = [c \in Sockets |->
                     IF c \in Connected /\ @[c] < MaxMissed
                     THEN @[c] + 1 ELSE @[c]]]
  /\ HeartFrame

HeartNext ==
  \/ \E c \in Sockets : HeartConnect(c)
  \/ \E c \in Sockets : HeartPong(c)
  \/ \E c \in Sockets : HeartClose(c)
  \/ HeartTick

HeartSpec == Init /\ [][HeartNext]_vars

\* ------------------------------------------------------------ vocabulary
Done(s) == pc[s] = "done"
Finished(s) == pc[s] \in {"done", "crashed"}
AllFinished == \A s \in Sessions : Finished(s)
EntriesOf(s) == SelectSeq(journal, LAMBDA e : e.ignore = s)
ConditionOf(s) == Condition(mailbox[s], req[s].update)
ReportedError(s, name) ==
  Done(s) /\ Len(fnCalls[s]) > 0 /\ fnCalls[s][1].err.name = name

\* ---------------------------------------------------------------- claims

\* C1 as stated: at most one invocation is between its successful
\* acquireLock and its releaseLock for the account key; the locked sections
\* of two EXPUNGE executions never overlap.
C1_MutualExclusion ==
  \A s, t \in Sessions : s # t => ~(InLocked(s) /\ InLocked(t))

\* C1 amended: the store holds at most one active token per key, and the
\* locked sections of two invocations overlap only when the token of one of
\* them has been removed by its TTL.
C1_ExclusionUntilExpiry ==
  /\ \A k \in Keys : Cardinality(locks[k]) <= 1
  /\ \A s, t \in Sessions :
       (s # t /\ InLocked(s) /\ InLocked(t))
         => (s \in ttlExpired \/ t \in ttlExpired)

\* C1 witness: one invocation is in its locked section with its token active
\* while a second one waits for the lock.
C1_Witness ==
  \E s, t \in Sessions :
    /\ s # t
    /\ InLocked(s) /\ LockHolds(locks, Token(s))
    /\ pc[t] = "acquire" /\ waited[t] > 0

\* what a finished invocation removes when it runs alone on table: all the
\* rows its condition matches when its loop ran to the end, the rows it got
\* to when it was cut short by an error or a crash
SerialEffect(s, table) ==
  IF Done(s) /\ err[s] = NoError
  THEN table \ Matching(table, ConditionOf(s))
  ELSE {r \in table : r.id \notin deleted[s]}

RECURSIVE SerialRun(_, _)
SerialRun(order, table) ==
  IF order = <<>> THEN table
  ELSE SerialRun(Tail(order), SerialEffect(Head(order), table))

\* C2: once the concurrent invocations have ended, the Messages table is what
\* running them one at a time in lock-acquisition order leaves; no row is
\* removed that matched no invocation's condition, and no row is deleted by
\* two invocations.
C2_Serializable ==
  /\ \A s, t \in Sessions : s # t => deleted[s] \cap deleted[t] = {}
  /\ \A s \in Sessions :
       deleted[s] \subseteq {r.id : r \in Matching(InitRows, ConditionOf(s))}
  /\ rows \subseteq InitRows
  /\ {r.id : r \in InitRows \ rows} = UNION {deleted[s] : s \in Sessions}
  /\ AllFinished => rows = SerialRun(acqOrder, InitRows)

\* C2 witness: both sessions have ended, each deleted a row, and their
\* locked sections overlapped.
C2_Witness ==
  /\ \A s \in Sessions : Done(s) /\ deleted[s] # {}
  /\ ttlExpired # {}

\* C3: when fn is called by an invocation that acquired the lock, releaseLock
\* has already been called for that lock, on the normal path and on the error
\* path alike.
C3_ReleaseBeforeFn ==
  \A s \in Sessions :
    (Len(fnCalls[s]) > 0 /\ acquired[s] > 0) => released[s] >= 1

\* C3 witness: an invocation that held the lock reports an error thrown
\* inside the locked block.
C3_Witness ==
  \E s \in Sessions :
    acquired[s] = 1 /\ ReportedError(s, "StorageError") /\ released[s] >= 1

\* C4 as stated: an invocation that acquired the lock calls releaseLock
\* exactly once, whether the locked block ended normally or threw.
C4_ReleasedOnce ==
  \A s \in Sessions :
    /\ released[s] <= 1
    /\ (Done(s) /\ acquired[s] = 1) => released[s] = 1

EntersLockedBlock(s) == pc[s] = "acquire" /\ pc'[s] = "select"

\* C5: an invocation that finds the lock held does not fail at once; it
\* enters its locked block only at a moment when no token is active, and it
\* fails with a lock timeout only after waiting the whole bounded wait, and
\* then without having acquired the lock or deleted a row.
C5_WaitsForLock ==
  /\ [][\A s \in Sessions :
          EntersLockedBlock(s) => LockIsFree(locks, DbKey)]_vars
  /\ [](\A s \in Sessions :
          ReportedError(s, "LockTimeout")
            => /\ waited[s] = MaxWait
               /\ acquired[s] = 0
               /\ deleted[s] = {}
               /\ released[s] = 0)

\* C5 witness: an invocation that had to wait for the lock acquired it
\* afterwards, deleted rows and reported success.
C5_Witness ==
  \E s \in Sessions :
    /\ waited[s] > 0 /\ acquired[s] = 1 /\ deleted[s] # {}
    /\ Done(s) /\ fnCalls[s][1].value = TRUE

HeldByCrashed ==
  \E t \in Sessions : pc[t] = "crashed" /\ LockHolds(locks, Token(t))

\* C6 as stated: when the holder of the lock has crashed, an EXPUNGE waiting
\* for the lock eventually acquires it.
C6_WaiterAcquires ==
  \A s \in Sessions :
    (pc[s] = "acquire" /\ HeldByCrashed) ~> (acquired[s] = 1)

\* C6 amended: a token left by a crashed holder does not stay active forever
\* (its TTL frees the lock), and an EXPUNGE waiting for the lock does not wait
\* forever: it acquires the lock or fails with a lock timeout.
C6_LeakedLockFreed ==
  [](/\ HeldByCrashed => <>LockIsFree(locks, DbKey)
     /\ \A s \in Sessions :
          pc[s] = "acquire"
            => <>(acquired[s] = 1 \/ ReportedError(s, "LockTimeout")))

\* C6 witness: the holder crashed, its token was removed by the TTL, and the
\* other session acquired the lock after having waited for it.
C6_Witness ==
  \E s, t \in Sessions :
    /\ pc[t] = "crashed" /\ t \in ttlExpired
    /\ s # t /\ waited[s] > 0 /\ acquired[s] = 1

\* C7 as stated: when an invocation has ended, each row it deleted has
\* exactly one EXPUNGE Change Entry and there is no entry for a row it did
\* not delete.
C7_JournalAtomic ==
  \A s \in Sessions :
    Done(s) =>
      /\ \A id \in deleted[s] :
           Len(SelectSeq(EntriesOf(s), LAMBDA e : e.message = id)) = 1
      /\ \A k \in 1..Len(EntriesOf(s)) : EntriesOf(s)[k].message \in deleted[s]

RECURSIVE Ascending(_)
Ascending(l) ==
  IF Len(l) < 2 THEN TRUE ELSE l[1] < l[2] /\ Ascending(Tail(l))

WriteUids(s) == [k \in 1..Len(writeStream[s]) |-> writeStream[s][k][2]]
EntryUids(s) == [k \in 1..Len(EntriesOf(s)) |-> EntriesOf(s)[k].uid]

\* C8: within one invocation the messages are processed, the EXPUNGE writes
\* queued and the Change Entries appended in strictly ascending uid order.
C8_AscendingUids ==
  \A s \in Sessions :
    /\ Ascending(processed[s])
    /\ Ascending(WriteUids(s))
    /\ Ascending(EntryUids(s))

\* C8 witness: one invocation queued two EXPUNGE writes and appended two
\* Change Entries.
C8_Witness ==
  \E s \in Sessions :
    Len(writeStream[s]) >= 2 /\ Len(EntriesOf(s)) >= 2 /\ Done(s)

\* C9 as stated: an invocation that deleted at least one message, and whose
\* addEntries calls all succeeded, fired the notifier exactly once.
C9_FiresOnce ==
  \A s \in Sessions :
    (Done(s) /\ deleted[s] # {}
       /\ Len(EntriesOf(s)) = Cardinality(deleted[s]))
      => fired[s] = 1

\* C10: an invocation whose mailbox lookup finds nothing reports the code
\* NONEXISTENT through fn(null, code) and has acquired no lock, deleted no
\* row, appended no Change Entry, fired no notifier and sent no 'size'
\* request.
C10_NonexistentMailbox ==
  \A s \in Sessions :
    (Done(s) /\ lookups[s] = 1 /\ FindMailbox(req[s].mailboxId) = None)
      => /\ fnCalls[s] = <<FnCall(NoError, "NONEXISTENT", <<>>)>>
         /\ acquired[s] = 0 /\ released[s] = 0
         /\ lock[s] = NoLock
         /\ deleted[s] = {} /\ processed[s] = <<>>
         /\ EntriesOf(s) = <<>>
         /\ fired[s] = 0
         /\ sizeReqs[s] = 0

\* C10 witness: an EXPUNGE on the missing mailbox id has ended after its
\* lookup, while the other session deleted rows.
C10_Witness ==
  \E s, t \in Sessions :
    /\ Done(s) /\ lookups[s] = 1 /\ req[s].mailboxId = MissingMailboxId
    /\ s # t /\ deleted[t] # {}

\* ------------------------------------------------- delegation vocabulary
\* fn(null, code): the protocol code handed over as the command's response
CodeResponse(code) == FnCall(NoError, code, <<>>)

\* the backend handler's fn call reports something else than a failure of
\* refreshSession or of the storage
Answered(call) == call.err.name \notin {"RefreshError", "StorageError"}

UnsubscribesMissing(s) ==
  fargs[s].verb = "UNSUBSCRIBE" /\ fargs[s].path \notin Paths

\* the step in which the backend's findOneAndUpdate of session s resolves
UnsubUpdateStep(s) == upc[s] = "update" /\ upc'[s] = "done"

\* C11: an UNSUBSCRIBE whose path matches no mailbox hands the protocol code
\* NONEXISTENT to the caller as fn(null, 'NONEXISTENT'), on the backend and on
\* the front-end that delegated it; it acquires no lock, appends no Change
\* Entry and leaves every subscribed flag as it was.
C11_UnsubscribeNonexistent ==
  /\ [](\A s \in Sessions :
          UnsubscribesMissing(s) =>
            /\ (upc[s] = "done" /\ Answered(ufn[s][1])
                  => ufn[s] = <<CodeResponse("NONEXISTENT")>>)
            /\ (fpc[s] = "done" /\ Answered(ufn[s][1])
                  => ffn[s] = <<CodeResponse("NONEXISTENT")>>)
            /\ acquired[s] = 0
            /\ EntriesOf(s) = <<>>)
  /\ [][\A s \in Sessions :
          UnsubscribesMissing(s) /\ UnsubUpdateStep(s) =>
            subscribed' = subscribed /\ locks' = locks /\ journal' = journal
       ]_vars

\* the fn call of the backend invocation that ran session s's command: what
\* the same command yields when it is entered on the backend directly
BackendCall(s) ==
  IF fargs[s].verb = "EXPUNGE" THEN fnCalls[s][1] ELSE ufn[s][1]

\* the request of session s settled with the backend's answer
Settled(s) == fpc[s] = "done"

\* the account database
database == <<rows, attachments, journal, subscribed>>

\* C12: a command run through the delegate path gives the same outcome as the
\* same command run on the backend: the same error and value passed to fn,
\* the same sequence of EXPUNGE writes reaching the client, and the same
\* database (the front-end handler itself changes nothing in it).
C12_DualModeEquivalent ==
  /\ [](\A s \in Sessions :
          Settled(s) =>
            /\ Len(ffn[s]) = 1
            /\ ffn[s][1].err = BackendCall(s).err
            /\ ToString(ffn[s][1].value) = ToString(BackendCall(s).value)
            /\ clientWrites[s] = FormatAll(BackendCall(s).writes))
  /\ [][\A s \in Sessions : fpc'[s] # fpc[s] => database' = database]_vars

\* the front-end handler of session s is over, whichever way its request
\* settled
FrontOver(s) == fpc[s] \in {"done", "failed"}

\* C13: on the delegate path of EXPUNGE and of UNSUBSCRIBE, a request that
\* fails with an error carrying a protocol response code ends in
\* fn(null, code), not in fn(err): the front-end handler never hands fn an
\* error that carries a code.
C13_CodePassedAsResponse ==
  \A s \in Sessions :
    FrontOver(s) =>
      /\ Len(ffn[s]) = 1
      /\ ffn[s][1].err.imapResponse = None

\* fn(null, true, ...): the command reported success
Success(call) == call.err = NoError /\ ToString(call.value) = ToString(TRUE)

\* C14: EXPUNGE reports success only if the lock was really acquired: the
\* backend calls fn(null, true) only after acquireLock gave it a token whose
\* success is true, and the front-end calls fn(null, true) only after the
\* request settled with the backend's own fn(null, true); never after the
\* lock acquisition or the request failed.
C14_SuccessNeedsLock ==
  \A s \in Sessions :
    /\ (\E k \in 1..Len(fnCalls[s]) : Success(fnCalls[s][k]))
         => acquired[s] = 1 /\ lock[s] = Token(s) /\ lock[s].success
    /\ (fargs[s].verb = "EXPUNGE"
        /\ \E k \in 1..Len(ffn[s]) : Success(ffn[s][k]))
         => /\ Settled(s)
            /\ Done(s) /\ Success(fnCalls[s][1])
            /\ acquired[s] = 1

\* C14 witness: a delegated EXPUNGE reported success on the front-end while
\* the other session's EXPUNGE failed to get the lock and reported the error.
C14_Witness ==
  \E s, t \in Sessions :
    /\ fargs[s].verb = "EXPUNGE" /\ Settled(s) /\ Success(ffn[s][1])
    /\ fargs[t].verb = "EXPUNGE" /\ Settled(t)
    /\ acquired[t] = 0 /\ ffn[t][1].err = LockTimeoutError

\* ------------------------------------------- attachment garbage collection
\* some remaining message row cites attachment a
Referenced(table, a) == \E r \in table : a \in r.attachmentMap

\* the step in which the deleteMany of session s settles
GcStep(s) == pc[s] = "gc" /\ pc'[s] = "add"

\* what that step removes, if anything: the attachments of the expunged
\* message that no remaining row cites at that moment
GcExact(s) ==
  /\ attachments' \subseteq attachments
  /\ attachments' # attachments =>
       attachments \ attachments' =
         {a \in messages[s][idx[s]].attachmentMap : ~Referenced(rows, a)}

\* attachments disappear in garbage collection steps only, and no attachment
\* that a message row cites is ever missing
GcSafe ==
  /\ [](\A a \in InitAttachments : Referenced(rows, a) => a \in attachments)
  /\ [][attachments' # attachments => \E s \in Sessions : GcStep(s)]_vars

Waiting(u) == broadcasts[u].state = "waiting"
Resolved(u) == broadcasts[u].state = "ok"
Rejected(u) == broadcasts[u].state = "timeout"
Deadline(u) == broadcasts[u].start + BroadcastTimeout

\* broadcast u was called while no client was connected
NobodyConnected(u) ==
  broadcasts[u].state # "idle" /\ broadcasts[u].sentTo = {}

\* C16: a broadcast issued while no client is connected fails with the
\* timeout error exactly when the 5 s bound elapses: it never resolves, it
\* does not fail earlier, it is not left waiting beyond the bound, and it
\* does fail.
C16_NoClientTimesOut ==
  /\ [](\A u \in Uuids :
          NobodyConnected(u) =>
            /\ ~Resolved(u)
            /\ (Rejected(u) => broadcasts[u].end = Deadline(u))
            /\ (Waiting(u) => now <= Deadline(u)))
  /\ \A u \in Uuids : (NobodyConnected(u) ~> Rejected(u))

\* C16 witness: a broadcast to nobody has failed, although a client connected
\* while it was waiting.
C16_Witness ==
  \E u \in Uuids :
    /\ NobodyConnected(u) /\ Rejected(u)
    /\ broadcasts[u].end = Deadline(u)
    /\ clients # {}

\* an echo of u is in the acknowledgment set before the bound of the waiting
\* broadcast has elapsed
EchoedInTime(u) == Waiting(u) /\ u \in uuidsReceived /\ now < Deadline(u)

C18_AckRemoved ==
  \A u \in Uuids : (u \in uuidsReceived ~> u \notin uuidsReceived)

\* C18 witness: an echo has arrived after its broadcast timed out.
C18_Witness ==
  \E u \in Uuids : Rejected(u) /\ u \in uuidsReceived

\* ------------------------------------------------------- bridge vocabulary
TimedOutOnly(n) == settled[n] = <<"Timeout">>
IsPending(n) == \E p \in pending : p.req = n
\* request n is pending with a timeout of 0
ZeroPending(n) == \E p \in pending : p.req = n /\ p.timeout = 0

\* C19: a request whose timeout has already expired (0 ms) always fails with
\* Timeout: its entry does not outlive the moment it was submitted, the entry
\* is removed, the request settles with Timeout and with nothing else
\* afterwards.
C19_ZeroTimeoutFails ==
  /\ [](\A p \in pending : p.timeout = 0 => clock = p.submitted)
  /\ [][\A p \in pending :
          p.timeout = 0 /\ p \notin pending' => TimedOutOnly(p.req)']_vars
  /\ [][\A n \in RequestNumbers :
          TimedOutOnly(n) => settled'[n] = settled[n]]_vars
  /\ \A n \in RequestNumbers :
       ZeroPending(n) ~> (~IsPending(n) /\ TimedOutOnly(n))

\* C19 witness: the first request, sent with timeout 0, has failed with
\* Timeout before any time passed, and its response came in afterwards.
C19_Witness ==
  /\ clock = 0 /\ pending = {}
  /\ TimedOutOnly(1)
  /\ arrivals[CorrelationId(1)] = 1

\* C20: at most one pending entry per correlation id, and a new entry never
\* takes an id that is pending; a request consumes at most one response; a
\* response whose id is not pending changes neither the pending entries nor
\* what any request settled with.
C20_OneResponsePerId ==
  /\ [](\A p, q \in pending : p.id = q.id => p = q)
  /\ [](\A n \in RequestNumbers : Len(settled[n]) <= 1)
  /\ [][\A p \in pending' \ pending : p.id \notin PendingIds]_vars
  /\ [][\A i \in RequestNumbers :
          arrivals'[i] > arrivals[i] /\ i \notin PendingIds =>
            pending' = pending /\ settled' = settled]_vars

\* C20 witness: one request took its response and the duplicate of that
\* response was dropped; another timed out and its late response was dropped.
C20_Witness ==
  \E n, m \in RequestNumbers :
    /\ settled[n] = <<"result">> /\ arrivals[CorrelationId(n)] = 2
    /\ settled[m] = <<"Timeout">> /\ arrivals[CorrelationId(m)] >= 1
    /\ pending = {}

\* C21: when the duplex channel disconnects, every Pending RPC Request fails
\* at once with ConnectionLost, which is neither Timeout nor RemoteError, and
\* no entry stays pending to wait for its timeout: while the channel is down
\* nothing is pending.
C21_DisconnectFailsPending ==
  /\ [][connected /\ ~connected' =>
          /\ pending' = {}
          /\ \A p \in pending : settled'[p.req] = <<"ConnectionLost">>]_vars
  /\ [](~connected => pending = {})
  /\ "ConnectionLost" \notin {"Timeout", "RemoteError", "result"}

\* C21 witness: two requests whose timeouts had not elapsed were pending when
\* the channel disconnected; both failed with ConnectionLost before any time
\* passed.
C21_Witness ==
  /\ ~connected /\ clock = 0 /\ pending = {}
  /\ \A n \in 1..2 : settled[n] = <<"ConnectionLost">>

\* -------------------------------------------------------- upgrade vocabulary
\* the credentials name something non-empty that decrypts to an allowed
\* secret
Authorized(credentials) ==
  /\ credentials.defined
  /\ credentials.name # ""
  /\ ~decrypt(credentials.name).threw
  /\ decrypt(credentials.name).value \in API_SECRETS

Unauthorized401 == [statusCode |-> 401, error |-> "Unauthorized"]

\* C22: an upgrade request becomes a connected client only if its
\* credentials have a non-empty name that decrypts to a value on the
\* allow-list; on every authentication failure or exception the unauthorized
\* status line is written and the socket is destroyed without being upgraded.
C22_OnlyAuthorizedConnect ==
  \A c \in Sockets :
    /\ c \in clients => Authorized(sockets[c].credentials)
    /\ sockets[c].upgraded => Authorized(sockets[c].credentials)
    /\ (sockets[c].state # "idle" /\ ~Authorized(sockets[c].credentials)) =>
         /\ sockets[c].state = "destroyed"
         /\ sockets[c].wrote = Unauthorized401
         /\ ~sockets[c].upgraded
         /\ c \notin clients

\* C22 witness: one socket was upgraded with an allowed secret and is a
\* connected client; another, whose name does not decrypt, was answered 401
\* and destroyed.
C22_Witness ==
  \E c, d \in Sockets :
    /\ c \in clients /\ sockets[c].credentials = Named("enc:secret2")
    /\ sockets[d].credentials = Named("garbage")
    /\ sockets[d].state = "destroyed" /\ sockets[d].wrote = Unauthorized401

\* -------------------------------------------------------- journal vocabulary
\* how many times the subscriber has observed the entry with modseq m
TimesObserved(m) ==
  Cardinality({k \in DOMAIN observed : observed[k].modseq = m})

\* the subscriber has just read the journal
JournalRead == SignalWake \/ Resume

\* C23: every EXPUNGE Change Entry appended to the journal is observed
\* exactly once by a subscriber that reads the entries with modseq greater
\* than its last-seen value: an entry it has read past is in what it observed
\* once, with its content; an entry not yet read is not there; and a read
\* leaves no appended entry unobserved, whether the subscriber was woken by
\* a signal, by a repeated signal or by none.
C23_EntryObservedOnce ==
  /\ [](\A m \in 1..Len(journal) :
          /\ TimesObserved(Modseq(m)) = (IF m <= lastSeen THEN 1 ELSE 0)
          /\ \A k \in DOMAIN observed :
               observed[k].modseq = Modseq(m) => observed[k].entry = journal[m])
  /\ [](\A k \in DOMAIN observed : observed[k].modseq \in 1..Len(journal))
  /\ [][JournalRead =>
          \A m \in 1..Len(journal') :
            Cardinality({k \in DOMAIN observed' :
                           observed'[k] = [modseq |-> Modseq(m),
                                           entry |-> journal'[m]]}) = 1]_vars

\* C23 witness: two entries were appended and fired for; the subscriber was
\* woken twice by signals and holds both entries, the second read after a
\* first read that saw only one.
C23_Witness ==
  /\ Len(journal) = 2 /\ Len(observed) = 2 /\ lastSeen = 2
  /\ wakeups = 2

\* ------------------------------------------------------ notifier vocabulary
\* session s is at the addEntries call for the message it has just deleted
AtAddEntries(s) == pc[s] = "add"

\* the Change Entry of the message session s is at
EntryAtHand(s) == ChangeEntry(s, messages[s][idx[s]])

\* C24: the notifier is fired for a deleted message only after its Change
\* Entry has been appended: a fire happens only in the step of an invocation
\* whose addEntries for the message at hand has appended the entry, an
\* addEntries that fails is followed by no fire for that message, and an
\* invocation has never fired more often than it has appended entries.
C24_FireAfterAppend ==
  /\ [][\A s \in Sessions :
          /\ fired'[s] # fired[s] =>
               /\ AtAddEntries(s)
               /\ fired'[s] = fired[s] + 1
               /\ journal' = Append(journal, EntryAtHand(s))
          /\ (AtAddEntries(s) /\ pc'[s] # pc[s] /\ pc'[s] # "crashed"
                /\ journal' = journal) => fired'[s] = fired[s]]_vars
  /\ [](\A s \in Sessions : fired[s] = Len(EntriesOf(s)))

\* C24 witness: an invocation deleted two messages, addEntries failed for
\* one of them, and the notifier was fired once, for the other.
C24_Witness ==
  \E s \in Sessions :
    /\ Done(s) /\ Cardinality(deleted[s]) = 2
    /\ Len(EntriesOf(s)) = 1 /\ fired[s] = 1

\* --------------------------------------------------- best-effort vocabulary
\* what the invocation reports when only its primary steps count
PrimaryResult(s) ==
  IF err[s] = NoError THEN FnCall(NoError, TRUE, writeStream[s])
  ELSE CatchResponse(err[s])

\* session s takes the step that follows its deleteMany call
AfterDeleteMany(s) == pc[s] = "gc" /\ pc'[s] # "gc"

\* C25: a failing attachment deleteMany or 'size' request never changes the
\* outcome of the invocation: after deleteMany, thrown or not, the handler
\* goes on to the EXPUNGE write and the addEntries of the same message with
\* no error noted; an invocation that reached its 'size' request reports
\* what its primary steps give, whatever was logged; and one that logged a
\* failure but met no primary error has processed every selected message and
\* reports success with its writes.
C25_BestEffortNeverEscalates ==
  /\ [][\A s \in Sessions :
          AfterDeleteMany(s) =>
            /\ pc'[s] = "add" /\ idx'[s] = idx[s] /\ err'[s] = err[s]
            /\ writeStream'[s] = Written(s, messages[s][idx[s]])]_vars
  /\ [](\A s \in Sessions :
          /\ err[s] \notin RpcFailures
          /\ (Done(s) /\ sizeReqs[s] > 0) => fnCalls[s] = <<PrimaryResult(s)>>
          /\ (Done(s) /\ sideFailures[s] # {} /\ err[s] = NoError) =>
               /\ Len(processed[s]) = Len(messages[s])
               /\ fnCalls[s] = <<FnCall(NoError, TRUE, writeStream[s])>>)

\* C25 witness: an invocation whose deleteMany threw and whose 'size'
\* request failed deleted two messages, appended both Change Entries and
\* reported success.
C25_Witness ==
  \E s \in Sessions :
    /\ Done(s) /\ sideFailures[s] = {"deleteMany", "size"}
    /\ Cardinality(deleted[s]) = 2 /\ Len(EntriesOf(s)) = 2
    /\ fnCalls[s] = <<FnCall(NoError, TRUE, writeStream[s])>>

\* ------------------------------------------------------- 'size' vocabulary
\* session s sends its 'size' request in this step
SendsSize(s) == sizeReqs'[s] # sizeReqs[s]

\* the token of session s is still the active one of its key
StillHolds(s) == lock[s] # NoLock /\ LockHolds(locks, lock[s])

\* an invocation that acquired the lock and ended has sent the request once,
\* whether or not its locked block threw
SizeOnBothPaths ==
  \A s \in Sessions : (Done(s) /\ acquired[s] = 1) => sizeReqs[s] = 1

\* C26 as stated: the 'size' request is sent only after releaseLock was
\* attempted, never while the invocation still holds the lock, and on the
\* success path and the throwing path alike.
C26_SizeAfterRelease ==
  /\ [][\A s \in Sessions :
          SendsSize(s) => released[s] >= 1 /\ ~StillHolds(s)]_vars
  /\ []SizeOnBothPaths

\* C26 amended: the 'size' request is sent only after releaseLock was
\* attempted and outside the locked block, on the success path and the
\* throwing path alike; the invocation's token is still active at that
\* moment only when that releaseLock threw and was logged.
C26_SizeAfterReleaseAttempt ==
  /\ [][\A s \in Sessions :
          SendsSize(s) =>
            /\ released[s] >= 1
            /\ ~InLocked(s)
            /\ StillHolds(s) => "releaseLock" \in sideFailures[s]]_vars
  /\ []SizeOnBothPaths

\* C26 witness: an invocation whose locked block threw has released the lock
\* and sent the 'size' request, and so has one whose block ended normally.
C26_Witness ==
  \E s, t \in Sessions :
    /\ err[s] # NoError /\ acquired[s] = 1 /\ sizeReqs[s] = 1
    /\ "releaseLock" \notin sideFailures[s]
    /\ s # t /\ Done(t) /\ err[t] = NoError /\ sizeReqs[t] = 1

\* ------------------------------------------------------- write vocabulary
\* the uids of the rows session s has deleted
DeletedUids(s) == {r.uid : r \in {x \in InitRows : x.id \in deleted[s]}}

\* the uid of a row just deleted whose attachments are being collected: its
\* write has not been decided yet
WriteAhead(s) == IF pc[s] = "gc" THEN {messages[s][idx[s]].uid} ELSE {}

\* the update is not silent, or the session has the target mailbox selected
Announces(s) ==
  \/ req[s].update.silent = FALSE
  \/ SessionSelected[s] = req[s].mailboxId

\* C27: an EXPUNGE write for a uid is queued exactly when this invocation
\* deleted the row of that uid and the update is not silent or the session
\* has the target mailbox selected; a silent update of a session that has
\* another mailbox selected queues no write although rows are deleted; no
\* uid is written twice.
C27_WriteIffDeletedAndAnnounced ==
  \A s \in Sessions :
    pc[s] # "crashed" =>
      /\ {WriteUids(s)[k] : k \in DOMAIN WriteUids(s)} =
           (IF Announces(s) THEN DeletedUids(s) \ WriteAhead(s) ELSE {})
      /\ Len(writeStream[s]) <= Cardinality(DeletedUids(s))

\* C27 witness: a silent UID EXPUNGE of the session that has another mailbox
\* selected deleted a row and queued nothing, while the silent UID EXPUNGE of
\* the session that has the mailbox selected queued a write.
C27_Witness ==
  \E s, t \in Sessions :
    /\ Done(s) /\ req[s].update.silent /\ SessionSelected[s] # req[s].mailboxId
    /\ deleted[s] # {} /\ writeStream[s] = <<>>
    /\ Done(t) /\ req[t].update.silent /\ SessionSelected[t] = req[t].mailboxId
    /\ deleted[t] # {} /\ Len(writeStream[t]) = Cardinality(deleted[t])

\* ------------------------------------------------------- frame vocabulary
\* the uids a UID EXPUNGE asks for
Asked(update) == {update.messages[k] : k \in DOMAIN update.messages}

\* the rows the EXPUNGE of session s is about: those of its mailbox that are
\* marked deleted and, for a UID EXPUNGE, have one of the uids asked for
Targets(s) ==
  {r \in InitRows :
     /\ r.mailbox = req[s].mailboxId
     /\ r.undeleted = FALSE
     /\ req[s].update.isUid => r.uid \in Asked(req[s].update)}

Succeeded(s) == Done(s) /\ Success(fnCalls[s][1])

\* C28: an EXPUNGE deletes exactly the rows of the target mailbox that are
\* marked deleted and, for a UID EXPUNGE, lie in the requested uids: an
\* invocation deletes no other row, a row that no invocation targets stays in
\* the table as it was, and when an invocation has reported success none of
\* its target rows is left.
C28_DeletesExactlyTargets ==
  /\ \A s \in Sessions : deleted[s] \subseteq {r.id : r \in Targets(s)}
  /\ \A r \in InitRows :
       (\A s \in Sessions : r \notin Targets(s)) => r \in rows
  /\ rows \subseteq InitRows
  /\ \A s \in Sessions : Succeeded(s) => Targets(s) \cap rows = {}

\* C28 witness: a UID EXPUNGE has succeeded; it removed its target rows and
\* nothing else, and a row of the same mailbox that is marked deleted but was
\* not asked for, the row that is not marked deleted and the row of the other
\* mailbox are all still there.
C28_Witness ==
  \E s \in Sessions :
    /\ Succeeded(s) /\ req[s].update.isUid
    /\ deleted[s] = {r.id : r \in Targets(s)} /\ deleted[s] # {}
    /\ rows = InitRows \ Targets(s)
    /\ \E r \in rows : r.mailbox = req[s].mailboxId /\ ~r.undeleted
    /\ \E r \in rows : r.mailbox = req[s].mailboxId /\ r.undeleted
    /\ \E r \in rows : r.mailbox # req[s].mailboxId

\* ------------------------------------------------------ replay vocabulary
\* the 'expunge' request of session s resolved and its handler called fn
ExpungeResolved(s) ==
  /\ fargs[s].verb = "EXPUNGE" /\ Settled(s)
  /\ fnCalls[s][1].err = NoError

\* the k-th write on the client's transport is the k-th returned instruction
ReplayedInOrder(s) ==
  LET returned == fnCalls[s][1].writes IN
    /\ Len(clientWrites[s]) = Len(returned)
    /\ \A k \in 1..Len(returned) :
         /\ clientWrites[s][k].command = returned[k][1]
         /\ clientWrites[s][k].uid = returned[k][2]

\* a step of the front-end handler of session s
FrontStep(s) == fpc'[s] # fpc[s]

\* C29: on the delegate path of EXPUNGE, when the request resolved, the
\* client's transport holds the returned write instructions, all of them and
\* in the order returned, by the time fn has been called, and fn is called
\* once; nothing is written to the transport before the request settles; and
\* no step of the front-end handler acquires or releases a lock or changes a
\* row, an attachment or the journal.
C29_ReplayThenFn ==
  /\ [](\A s \in Sessions :
          /\ ExpungeResolved(s) => ReplayedInOrder(s) /\ Len(ffn[s]) = 1
          /\ ffn[s] = <<>> => clientWrites[s] = <<>>)
  /\ [][\A s \in Sessions :
          FrontStep(s) =>
            UNCHANGED <<locks, acquired, released, rows, attachments,
                        journal>>]_vars

\* C29 witness: the request of a session resolved with two EXPUNGE writes,
\* both are on the client's transport, uid 1 before uid 2, and fn was called
\* with success.
C29_Witness ==
  \E s \in Sessions :
    /\ ExpungeResolved(s) /\ Success(ffn[s][1])
    /\ Len(clientWrites[s]) = 2
    /\ clientWrites[s][1].uid = 1 /\ clientWrites[s][2].uid = 2

UnsubscribesExisting(s) ==
  fargs[s].verb = "UNSUBSCRIBE" /\ fargs[s].path \in Paths

\* the backend handler of session s ended without a throw of refreshSession
\* or of the storage
Unfailed(calls) == Len(calls) = 1 /\ Answered(calls[1])

\* C31: a backend UNSUBSCRIBE of an existing path, when neither
\* refreshSession nor the storage throws, leaves the flag of that mailbox
\* false and the flag of every other mailbox as it was, calls fn(null, true),
\* and takes or releases no lock; repeated on a mailbox that is already
\* unsubscribed it changes nothing and reports success again.
C31_UnsubscribeIdempotent ==
  /\ [][\A s \in Sessions :
          (UnsubscribesExisting(s) /\ UnsubUpdateStep(s)
             /\ Unfailed(ufn'[s])) =>
            /\ subscribed'[fargs[s].path] = FALSE
            /\ \A q \in Paths \ {fargs[s].path} : subscribed'[q] = subscribed[q]
            /\ Success(ufn'[s][1])
            /\ UNCHANGED <<locks, acquired, released, rows, journal>>
            /\ subscribed[fargs[s].path] = FALSE => subscribed' = subscribed
       ]_vars
  /\ [](\A s \in Sessions :
          (UnsubscribesExisting(s) /\ upc[s] = "done" /\ Unfailed(ufn[s])) =>
            /\ Success(ufn[s][1])
            /\ subscribed[fargs[s].path] = FALSE
            /\ acquired[s] = 0)

\* C31 witness: two sessions have unsubscribed the same existing mailbox one
\* after the other; both were told success, its flag is false and the flag of
\* the other mailbox is still true.
C31_Witness ==
  /\ \A s \in Sessions :
       /\ UnsubscribesExisting(s) /\ fargs[s].path = "INBOX"
       /\ upc[s] = "done" /\ Unfailed(ufn[s]) /\ Success(ufn[s][1])
  /\ subscribed["INBOX"] = FALSE /\ subscribed["Sent"] = TRUE

\* ------------------------------------------------ deleteMany under the lock
\* session s calls attachmentStorage.deleteMany in this step
CallsDeleteMany(s) == pc[s] = "gc" /\ pc'[s] # "gc" /\ pc'[s] # "crashed"

\* the call is made after the invocation's acquireLock succeeded and before
\* its first releaseLock, with the token that acquireLock returned
BetweenAcquireAndRelease(s) ==
  /\ acquired[s] = 1 /\ released[s] = 0
  /\ lock[s].success /\ lock[s] = Token(s)

\* C32 as stated: every deleteMany call of an EXPUNGE is made while the
\* invocation holds the account's lock, after its acquireLock succeeded and
\* before its first releaseLock, with that same token.
C32_DeleteManyHoldsLock ==
  [][\A s \in Sessions :
       CallsDeleteMany(s) =>
         BetweenAcquireAndRelease(s) /\ LockHolds(locks, lock[s])]_vars

\* C32 amended: every deleteMany call of an EXPUNGE is made after the
\* invocation's acquireLock succeeded and before its first releaseLock, with
\* that same token; the token is then the active one of the account unless
\* its TTL has run out in the meantime.
C32_DeleteManyHoldsLockUntilExpiry ==
  [][\A s \in Sessions :
       CallsDeleteMany(s) =>
         /\ BetweenAcquireAndRelease(s)
         /\ LockHolds(locks, lock[s]) \/ s \in ttlExpired]_vars

\* C32 witness: an invocation whose token is the active one has called
\* deleteMany for the attachments of uid 1 and has not released yet, while
\* the other session waits for the lock.
C32_Witness ==
  \E s, t \in Sessions :
    /\ pc[s] = "add" /\ 11 \in deleted[s] /\ "att1" \notin attachments
    /\ LockHolds(locks, lock[s]) /\ released[s] = 0
    /\ s # t /\ pc[t] = "acquire" /\ waited[t] > 0

\* ---------------------------------------------------------------- C33
RequestsOf(i, action) ==
  SelectSeq(cleanup.requests[i], LAMBDA r : r.action = action)
\* the mapper of the id is past its 'size' request
PastSize(i) == cleanup.at[i] \in {"quota", "returned", "caught"}
VacuumFailed(i) ==
  \E n \in 1 .. Len(cleanup.requests[i]) :
    /\ cleanup.requests[i][n].action = "vacuum"
    /\ cleanup.requests[i][n].outcome # "ok"

\* the cleanup job sends at most one 'vacuum' and at most one 'size' request
\* per id and run, and a mapper whose vacuum failed or timed out still sends
\* its 'size' request
CleanupNeverRetries ==
  \A i \in Ids :
    /\ Len(RequestsOf(i, "vacuum")) <= 1
    /\ Len(RequestsOf(i, "size")) <= 1
    /\ VacuumFailed(i) /\ PastSize(i) => Len(RequestsOf(i, "size")) = 1

\* C33: the cleanup job never retries an RPC request (at most one 'vacuum' and
\* one 'size' request per id and run), a failed or timed-out vacuum does not
\* prevent the 'size' request of that id, and a failure for one id does not
\* stop the processing of the other ids: an id is left unprocessed only while
\* the run is still going to start it
C33_CleanupNeverRetriesNorStops ==
  /\ CleanupNeverRetries
  /\ \A i \in Ids : cleanup.at[i] = "queued" => cleanup.job = "running"

\* C33 as it holds: the cleanup job never retries an RPC request (at most one
\* 'vacuum' and one 'size' request per id and run), a failed or timed-out
\* vacuum does not prevent the 'size' request of that id, and a failure inside
\* the mapper's try (a request, the quota steps) does not stop the other ids;
\* ids are left unprocessed only when the alias lookup before the try rejected
\* for some id
C33_CleanupStopsOnlyOnLookup ==
  /\ CleanupNeverRetries
  /\ \A i \in Ids :
       cleanup.at[i] = "queued" =>
         \/ cleanup.job = "running"
         \/ \E j \in Ids : cleanup.at[j] = "rejected"

\* the run is over; one id's vacuum timed out and its 'size' request failed,
\* and an id started after it was processed to the end
C33_Witness ==
  /\ cleanup.job = "exited"
  /\ \E i, j \in Ids :
       /\ i < j
       /\ cleanup.at[i] = "caught"
       /\ cleanup.requests[i] = <<[action |-> "vacuum", outcome |-> "Timeout"],
                                  [action |-> "size", outcome |-> "RemoteError"]>>
       /\ cleanup.at[j] = "returned"
       /\ cleanup.requests[j] = <<[action |-> "vacuum", outcome |-> "ok"],
                                  [action |-> "size", outcome |-> "ok"]>>
       /\ \A k \in Ids : cleanup.at[k] \in {"caught", "returned"}

\* ---------------------------------------------------------------- C36
\* C36: the concurrent-connection counters never become negative, whatever
\* the interleaving of onClose calls
C36_CountersNeverNegative ==
  \A k \in CounterKeys : closing.counters[k] >= 0

\* ---------------------------------------------------------------- C37
Measuring == {r \in Runners : tti.at[r] = "measure"}

\* C37: at any moment at most one checkTTI invocation is past the lock check
\* and in the measurement section
C37_OneMeasures == Cardinality(Measuring) <= 1

\* ---------------------------------------------------------------- C38
\* the step of r's invocation removes the tti_lock key
DeletesLock(r) ==
  /\ tti.at[r] = "del" /\ tti'.at[r] = "idle"
  /\ tti.lock # NoKey /\ tti'.lock = NoKey

\* C38: a checkTTI invocation deletes the tti_lock key only if that same
\* invocation set it and it has not expired since
C38_DeletesOwnLock ==
  [][\A r \in Runners :
       DeletesLock(r) => tti.set[r] /\ tti.lock = [by |-> r]]_vars

\* ---------------------------------------------------------------- C39
Ticked == heart'.ticks # heart.ticks
ConnectedAfter == {heart'.clients[n] : n \in 1 .. Len(heart'.clients)}

\* C39: at every heartbeat tick every connected client whose isAlive flag is
\* false is terminated and every other connected client has its flag cleared
\* and is sent a ping; so a connected client has missed at most one tick since
\* its last pong (the second tick terminates it), whatever the other clients
\* do
C39_HeartbeatTerminatesSilent ==
  /\ [][Ticked =>
          \A c \in Connected :
            IF heart.isAlive[c] = FALSE
            THEN c \notin ConnectedAfter
            ELSE /\ c \in ConnectedAfter
                 /\ heart'.isAlive[c] = FALSE
                 /\ c \in heart'.pinged]_vars
  /\ [](\A c \in Connected : heart.missed[c] <= 1)

\* ---------------------------------------------------------------- C34
\* a handler whose calls of fn are `calls` has called fn at most once, and
\* exactly once when it has returned
CalledOnce(calls, returned) ==
  /\ Len(calls) <= 1
  /\ returned => Len(calls) = 1

\* C34: every invocation of onExpunge and of onUnsubscribe, on the front-end
\* and on the backend, calls its fn exactly once on every path: never twice,
\* and once by the time it has returned
C34_FnCalledOnce ==
  \A s \in Sessions :
    /\ CalledOnce(fnCalls[s], pc[s] = "done")
    /\ CalledOnce(ufn[s], upc[s] = "done")
    /\ CalledOnce(ffn[s], fpc[s] \in {"done", "failed"})

\* one session's delegated EXPUNGE failed inside the locked block, the other's
\* UNSUBSCRIBE named a path no mailbox has; every handler has returned
C34_Witness ==
  \E s, t \in Sessions :
    /\ fargs[s].verb = "EXPUNGE" /\ pc[s] = "done" /\ err[s] # NoError
    /\ Len(fnCalls[s]) = 1 /\ fpc[s] = "done" /\ Len(ffn[s]) = 1
    /\ fargs[t].verb = "UNSUBSCRIBE" /\ fargs[t].path \notin Paths
    /\ upc[t] = "done" /\ Len(ufn[t]) = 1
    /\ fpc[t] = "done" /\ Len(ffn[t]) = 1

\* ---------------------------------------------------------------- C35
\* the uids of the EXPUNGE writes in the write list of a call of fn
HandedUids(call) == {call.writes[k][2] : k \in DOMAIN call.writes}

\* C35: when a backend EXPUNGE whose write condition holds has returned, the
\* write list it handed to its caller holds an EXPUNGE write for every row it
\* deleted, also when a later message of the batch failed
C35_DeletedRowsAreHanded ==
  \A s \in Sessions :
    Done(s) /\ Announces(s) => DeletedUids(s) \subseteq HandedUids(fnCalls[s][1])
====
